---- MODULE Spec2Model ----
(***************************************************************************)
(* Verification model of Cesar199999/CS-523:                                *)
(*   smcompiler   - additive secret sharing, Beaver dealer, SMC evaluator   *)
(*   secretstroll - Pointcheval-Sanders signatures and credentials          *)
(* A Share is modelled by its only field, the integer `value`.  Random      *)
(* draws are nondeterministic choices over the whole range of the draw.     *)
(***************************************************************************)
EXTENDS Integers, Sequences, FiniteSets, TLC

VARIABLES
    unique_prime,     \* secret_sharing.py: UniquePrime.__unique_prime, fixed at import
    sh,               \* secret_sharing.py: last share_secret / reconstruct_secret call
    participant_ids,  \* ttp.py: TrustedParamGenerator.participant_ids
    triplets,         \* ttp.py: __operation_id_to_user_id_to_shares
    ttp_ret,          \* ttp.py: the last retrieve_share call and what it returned
    protocol_spec,    \* smc_party.py: ProtocolSpec (expr, participant_ids) of the run
    value_dict,       \* smc_party.py: SMCParty.value_dict of every party
    share_dict,       \* smc_party.py: SMCParty.share_dict of every party
    party,            \* smc_party.py: where every party stands in run()
    private_messages, \* message bus: (recipient, label) -> payload
    public_messages,  \* message bus: (sender, label) -> payload
    ps,               \* credential.py: key pair, last sign and last verify call
    iss,              \* credential.py: the parties' values along one issuance
    digests,          \* credential.py: pickle_and_hash, the digests computed so far
    show,             \* credential.py: credential, disclosure proof and verdict of a showing
    group_order,      \* credential.py: G1.order(), the prime order of the pairing groups
    stroll            \* stroll.py: what Server and Client hold and exchange in one run

shareVars == <<sh>>
ttpVars   == <<participant_ids, triplets, ttp_ret>>
smcVars   == <<protocol_spec, value_dict, share_dict, party, private_messages,
               public_messages>>
credVars  == <<ps, iss, digests, show, group_order, stroll>>
vars      == <<unique_prime, sh, participant_ids, triplets, ttp_ret, protocol_spec,
               value_dict, share_dict, party, private_messages, public_messages,
               ps, iss, digests, show, group_order, stroll>>

-----------------------------------------------------------------------------
(* Bounds of the model *)

\* largest num_shares passed to share_secret
MaxShares == 3

-----------------------------------------------------------------------------
(* secret_sharing.py *)

\* UniquePrime.__unique_prime is bn.Bn.get_prime(1024): a prime drawn when the
\* module is imported and never changed.  The model draws it in Init from a
\* set of small primes and takes every operation modulo it as the source does.
\* get_unique_prime()
UniquePrime == unique_prime

\* random.randint(0, p - 1)
Field == 0 .. (UniquePrime - 1)

\* sum(...) of a sequence of integers, left to right from 0
RECURSIVE SumSeq(_)
SumSeq(s) == IF s = <<>> THEN 0 ELSE SumSeq(SubSeq(s, 1, Len(s) - 1)) + s[Len(s)]

\* Share(): value is None, so `if value` is false and a random field element is drawn
ShareNone == Field

\* Share(value): `value % p if value else random.randint(0, p - 1)`;
\* the set of values the new share can hold (0 is falsy in Python)
Share(value) == IF value # 0 THEN {value % UniquePrime} ELSE Field

\* share_secret(secret, num_shares): every list of shares it can return
share_secret(secret, num_shares) ==
    { random_shares \o <<first_share>> :
        <<random_shares, first_share>> \in
            { <<rs, f>> \in [1 .. (num_shares - 1) -> ShareNone] \X Field :
                f \in Share(secret - SumSeq(rs)) } }

\* reconstruct_secret(shares)
reconstruct_secret(shares) == SumSeq(shares) % UniquePrime

-----------------------------------------------------------------------------
(* Share operators, secret_sharing.py: each returns the set of values the   *)
(* resulting Share can hold, because compute_operation builds a new Share   *)

\* Share.compute_operation(other, operator.add) / __add__ / __radd__
ShareAdd(value, other) == Share(value + other)

\* Share.compute_operation(other, operator.sub) / __sub__
ShareSub(value, other) == Share(value - other)

\* Share.compute_operation(other, operator.mul) / __mul__ / __rmul__
ShareMul(value, other) == Share(value * other)

\* Python's sum(shares) over Share objects: 0 + s1 + s2 + ..., every step a
\* Share addition (0 + s1 is s1.__radd__(0)); sum of no share is the int 0
RECURSIVE SumShares(_)
SumShares(shares) ==
    IF shares = <<>> THEN {0}
    ELSE UNION { ShareAdd(acc, shares[Len(shares)]) :
                    acc \in SumShares(SubSeq(shares, 1, Len(shares) - 1)) }

-----------------------------------------------------------------------------
(* ttp.py: TrustedParamGenerator *)

\* party identifiers in their string order (min() picks the first)
AllParties == <<"Alice", "Bob", "Charlie", "Dave">>

\* number of party identifiers in use
NumParties == 2

Parties == { AllParties[i] : i \in 1 .. NumParties }

\* operation ids the dealer is asked about
OpIds == {"op1", "op2"}

\* randint(0, p): both ends included
DealerRandom == 0 .. UniquePrime

\* share_c[i] = share_a[i] * share_b[i] + share_a[i] * (sum(share_b) - share_b[i])
TripletC(share_a, share_b, i) ==
    UNION { UNION { UNION { UNION { ShareAdd(t1, t3)
        : t3 \in ShareMul(share_a[i], t2) }
        : t2 \in ShareSub(sb, share_b[i]) }
        : sb \in SumShares(share_b) }
        : t1 \in ShareMul(share_a[i], share_b[i]) }

\* the orders in which enumerate(self.participant_ids) can walk the set
Enumerations(S) ==
    { f \in [1 .. Cardinality(S) -> S] : \A i, j \in DOMAIN f : f[i] = f[j] => i = j }

\* generate_triplets(): every dict {client_id: (a_i, b_i, c_i)} it can return
generate_triplets ==
    LET n == Cardinality(participant_ids) IN
    { [ client_id \in participant_ids |->
            LET i == CHOOSE i \in DOMAIN order : order[i] = client_id
            IN <<share_a[i], share_b[i], share_c[i]>> ] :
        <<share_a, share_b, share_c, order>> \in
            { <<sa, sb, sc, o>> \in
                (UNION { share_secret(a, n) : a \in DealerRandom })
                \X (UNION { share_secret(b, n) : b \in DealerRandom })
                \X [1 .. (IF n = 0 THEN 1 ELSE n) -> Field]
                \X Enumerations(participant_ids) :
                    \A i \in DOMAIN sc : sc[i] \in TripletC(sa, sb, i) } }

\* the dict lookup [op_id][client_id]; <<>> stands for the KeyError of a
\* client_id the entry does not hold
Slice(entries, client_id) ==
    IF client_id \in DOMAIN entries THEN entries[client_id] ELSE <<>>

\* add_participant(participant_id)
add_participant(participant_id) ==
    /\ participant_ids' = participant_ids \cup {participant_id}
    /\ UNCHANGED <<triplets, ttp_ret>>

\* the table after `if op_id not in table: table[op_id] = generate_triplets()`
TableAfterAlwaysGenerate(op_id) ==
    { [ o \in DOMAIN triplets \cup {op_id} |->
            IF o = op_id THEN g ELSE triplets[o] ] : g \in generate_triplets }

TableAfter(op_id) ==
    IF op_id \notin DOMAIN triplets
    THEN { [ o \in DOMAIN triplets \cup {op_id} |->
                IF o = op_id THEN g ELSE triplets[o] ] : g \in generate_triplets }
    ELSE {triplets}

\* retrieve_share(client_id, op_id); a missing client_id raises KeyError after
\* the table was filled.  ttp_ret records the call: its arguments, the slice
\* returned, and the slice the same arguments returned before (<<>>: none).
retrieve_share(client_id, op_id) ==
    \E table \in TableAfter(op_id) :
        /\ triplets' = table
        /\ ttp_ret' =
            [ client_id |-> client_id,
              op_id  |-> op_id,
              slice  |-> Slice(table[op_id], client_id),
              before |-> IF op_id \in DOMAIN triplets
                         THEN Slice(triplets[op_id], client_id) ELSE <<>> ]
        /\ UNCHANGED participant_ids

-----------------------------------------------------------------------------
(* expression.py: the expression AST.  Every node carries its id; a node     *)
(* object referenced twice appears twice with the same id.                   *)

Scalar(value) == [type |-> "Scalar", value |-> value]

Secret(id) == [type |-> "Secret", id |-> id]

Add(left, right, id) == [type |-> "Add", left |-> left, right |-> right, id |-> id]

Mul(left, right, id) == [type |-> "Mul", left |-> left, right |-> right, id |-> id]

-----------------------------------------------------------------------------
(* Message bus (communication.py and server.py are not part of the sources): *)
(* private mailboxes keyed by (recipient, label), public slots keyed by      *)
(* (sender, label); a read blocks until the slot is bound and leaves it bound *)

\* bind key to value in the mapping f
Put(f, key, value) ==
    [ x \in DOMAIN f \cup {key} |-> IF x = key THEN value ELSE f[x] ]

\* Share.serialize(): the JSON object of the share's __dict__
serialize(value) == [value |-> value]

\* Share.deserialize(serialized): Share(**json.loads(serialized)), a new Share
deserialize(serialized) == Share(serialized.value)

\* the lists of Shares that deserializing a list of payloads can give
RECURSIVE DeserializeAll(_)
DeserializeAll(payloads) ==
    IF payloads = <<>> THEN {<<>>}
    ELSE { Append(front, last) :
            <<front, last>> \in DeserializeAll(SubSeq(payloads, 1, Len(payloads) - 1))
                                \X deserialize(payloads[Len(payloads)]) }

-----------------------------------------------------------------------------
(* smc_party.py: SMCParty *)

\* a value returned by process_expression: a Share or a plain int
AShare(value) == [share |-> TRUE, value |-> value]
AnInt(value) == [share |-> FALSE, value |-> value]

\* the order in which process_expression visits the nodes: both operands of
\* an Add or Mul (left, then right), then the node itself
RECURSIVE Visits(_)
Visits(expr) ==
    IF expr.type \in {"Add", "Mul"}
    THEN Visits(expr.left) \o Visits(expr.right) \o <<[type |-> expr.type, id |-> expr.id]>>
    ELSE <<expr>>

\* min(self.protocol_spec.participant_ids): the first id in string order
MinId(ids) ==
    AllParties[CHOOSE i \in DOMAIN AllParties :
        /\ \E k \in DOMAIN ids : ids[k] = AllParties[i]
        /\ \A j \in 1 .. (i - 1) : \A k \in DOMAIN ids : ids[k] # AllParties[j]]

IsFirst(client_id) == client_id = MinId(protocol_spec.participant_ids)

\* the node the party is about to process
Node(client_id) == Visits(protocol_spec.expr)[party[client_id].pc]

Evaluating(client_id, type) ==
    /\ party[client_id].at = "eval"
    /\ party[client_id].pc <= Len(Visits(protocol_spec.expr))
    /\ Node(client_id).type = type

\* the party after a node returned `value`
Returned(client_id, operands, value) ==
    [party EXCEPT ![client_id].pc = @ + 1,
                  ![client_id].stack =
                        Append(SubSeq(@, 1, Len(@) - operands), value)]

\* the operands [share_x, share_y] of an Add or Mul node
Left(client_id) == party[client_id].stack[Len(party[client_id].stack) - 1]
Right(client_id) == party[client_id].stack[Len(party[client_id].stack)]

\* process_expression on a Scalar: return expr.value
ProcessScalar(client_id) ==
    /\ Evaluating(client_id, "Scalar")
    /\ party' = Returned(client_id, 0, AnInt(Node(client_id).value))
    /\ UNCHANGED <<share_dict, private_messages, public_messages, ttpVars>>

\* a party that looks no Secret up in its share dictionary
NeverCached(client_id) == FALSE

\* process_secret: `expr in self.share_dict` for the Secret being processed
Cached(client_id) == Node(client_id).id \in DOMAIN share_dict[client_id]

\* process_secret, `expr in self.share_dict`: return the cached share
ProcessSecretCached(client_id) ==
    /\ Evaluating(client_id, "Secret")
    /\ Cached(client_id)
    /\ party' = Returned(client_id, 0, AShare(share_dict[client_id][Node(client_id).id]))
    /\ UNCHANGED <<share_dict, private_messages, public_messages, ttpVars>>

\* process_secret, `expr in self.value_dict`: share the secret, keep the share
\* zipped with the own client_id, send every other one
ProcessSecretOwner(client_id) ==
    /\ Evaluating(client_id, "Secret")
    /\ ~Cached(client_id)
    /\ Node(client_id).id \in DOMAIN value_dict[client_id]
    /\ LET id  == Node(client_id).id
           ids == protocol_spec.participant_ids
       IN \E shares \in share_secret(value_dict[client_id][id], Len(ids)) :
            LET own == CHOOSE k \in DOMAIN ids : ids[k] = client_id IN
            /\ share_dict' = [share_dict EXCEPT ![client_id] = Put(@, id, shares[own])]
            /\ private_messages' =
                [ key \in DOMAIN private_messages
                        \cup { <<ids[k], "share", id>> : k \in DOMAIN ids \ {own} } |->
                    IF \E k \in DOMAIN ids \ {own} : key = <<ids[k], "share", id>>
                    THEN serialize(shares[CHOOSE k \in DOMAIN ids \ {own} :
                                            key = <<ids[k], "share", id>>])
                    ELSE private_messages[key] ]
            /\ party' = Returned(client_id, 0, AShare(shares[own]))
    /\ UNCHANGED <<public_messages, ttpVars>>

\* process_secret, otherwise: block on the private message "share <id>",
\* deserialize it and cache it
ProcessSecretReceive(client_id) ==
    /\ Evaluating(client_id, "Secret")
    /\ ~Cached(client_id)
    /\ Node(client_id).id \notin DOMAIN value_dict[client_id]
    /\ <<client_id, "share", Node(client_id).id>> \in DOMAIN private_messages
    /\ \E value \in deserialize(private_messages[<<client_id, "share", Node(client_id).id>>]) :
        /\ share_dict' = [share_dict EXCEPT ![client_id] = Put(@, Node(client_id).id, value)]
        /\ party' = Returned(client_id, 0, AShare(value))
    /\ UNCHANGED <<private_messages, public_messages, ttpVars>>

\* process_add: what it can return for the operands share_x, share_y; every
\* party but the first returns the share of a share-and-int pair unchanged,
\* otherwise share_x + share_y (int + Share is Share.__radd__)
process_add(share_x, share_y, first) ==
    IF ~first /\ (share_x.share \/ share_y.share) /\ ~share_x.share
    THEN {share_y}
    ELSE IF ~first /\ (share_x.share \/ share_y.share) /\ ~share_y.share
    THEN {share_x}
    ELSE IF share_x.share \/ share_y.share
    THEN { AShare(v) : v \in ShareAdd(IF share_x.share THEN share_x.value ELSE share_y.value,
                                      IF share_x.share THEN share_y.value ELSE share_x.value) }
    ELSE { AnInt(share_x.value + share_y.value) }

ProcessAdd(client_id) ==
    /\ Evaluating(client_id, "Add")
    /\ \E value \in process_add(Left(client_id), Right(client_id), IsFirst(client_id)) :
        party' = Returned(client_id, 2, value)
    /\ UNCHANGED <<share_dict, private_messages, public_messages, ttpVars>>

\* process_mul with an int operand: share_x * share_y
ScalarProduct(share_x, share_y) ==
    IF share_x.share \/ share_y.share
    THEN { AShare(v) : v \in ShareMul(IF share_x.share THEN share_x.value ELSE share_y.value,
                                      IF share_x.share THEN share_y.value ELSE share_x.value) }
    ELSE { AnInt(share_x.value * share_y.value) }

ProcessMulScalar(client_id) ==
    /\ Evaluating(client_id, "Mul")
    /\ ~(Left(client_id).share /\ Right(client_id).share)
    /\ \E value \in ScalarProduct(Left(client_id), Right(client_id)) :
        party' = Returned(client_id, 2, value)
    /\ UNCHANGED <<share_dict, private_messages, public_messages, ttpVars>>

\* process_mul with two shares, up to the first blocking read: fetch the
\* Beaver triplet of the node, publish share_x - share_a and share_y - share_b
ProcessMulPublish(client_id) ==
    /\ Evaluating(client_id, "Mul")
    /\ Left(client_id).share /\ Right(client_id).share
    /\ retrieve_share(client_id, Node(client_id).id)
    /\ LET id == Node(client_id).id
           share_a == ttp_ret'.slice[1]
           share_b == ttp_ret'.slice[2]
           share_c == ttp_ret'.slice[3]
       IN \E x_a \in ShareSub(Left(client_id).value, share_a),
             y_b \in ShareSub(Right(client_id).value, share_b) :
            /\ public_messages' =
                Put(Put(public_messages,
                        <<client_id, "share: x - a multiplication", id>>, serialize(x_a)),
                    <<client_id, "share: y - b multiplication", id>>, serialize(y_b))
            /\ party' = [party EXCEPT ![client_id].at = "mul",
                                      ![client_id].share_c = share_c]
    /\ UNCHANGED <<share_dict, private_messages>>

\* every participant published under `label` for node `id`
AllPublished(label, id) ==
    \A k \in DOMAIN protocol_spec.participant_ids :
        <<protocol_spec.participant_ids[k], label, id>> \in DOMAIN public_messages

\* retrieve_and_reconstruct(message): the values it can return once every
\* participant's message is there
retrieve_and_reconstruct(label, id) ==
    { reconstruct_secret(shares) :
        shares \in DeserializeAll(
            [ k \in DOMAIN protocol_spec.participant_ids |->
                public_messages[<<protocol_spec.participant_ids[k], label, id>>] ]) }

\* share_c + value_y_b * share_x + value_x_a * share_y
\*         - value_x_a * value_y_b * int(first)
BeaverResult(share_c, share_x, share_y, value_x_a, value_y_b, first) ==
    UNION { UNION { UNION { UNION {
        ShareSub(u2, value_x_a * value_y_b * (IF first THEN 1 ELSE 0))
        : u2 \in ShareAdd(u1, t2) }
        : t2 \in ShareMul(share_y, value_x_a) }
        : u1 \in ShareAdd(share_c, t1) }
        : t1 \in ShareMul(share_x, value_y_b) }

\* process_mul with two shares, from the blocking reads on
ProcessMulReconstruct(client_id) ==
    /\ party[client_id].at = "mul"
    /\ AllPublished("share: x - a multiplication", Node(client_id).id)
    /\ AllPublished("share: y - b multiplication", Node(client_id).id)
    /\ \E value_x_a \in retrieve_and_reconstruct("share: x - a multiplication", Node(client_id).id),
          value_y_b \in retrieve_and_reconstruct("share: y - b multiplication", Node(client_id).id) :
        \E value \in BeaverResult(party[client_id].share_c, Left(client_id).value,
                                  Right(client_id).value, value_x_a, value_y_b,
                                  IsFirst(client_id)) :
            party' = [Returned(client_id, 2, AShare(value)) EXCEPT ![client_id].at = "eval"]
    /\ UNCHANGED <<share_dict, private_messages, public_messages, ttpVars>>

Evaluated(client_id) ==
    /\ party[client_id].at = "eval"
    /\ party[client_id].pc = Len(Visits(protocol_spec.expr)) + 1

\* run(): publish the final share
RunPublish(client_id) ==
    /\ Evaluated(client_id)
    /\ Right(client_id).share
    /\ public_messages' = Put(public_messages, <<client_id, "final share", "">>,
                              serialize(Right(client_id).value))
    /\ party' = [party EXCEPT ![client_id].at = "final"]
    /\ UNCHANGED <<share_dict, private_messages, ttpVars>>

\* run(): process_expression returned an int, share.serialize() raises
\* AttributeError
RunRaise(client_id) ==
    /\ Evaluated(client_id)
    /\ ~Right(client_id).share
    /\ party' = [party EXCEPT ![client_id].at = "AttributeError"]
    /\ UNCHANGED <<share_dict, private_messages, public_messages, ttpVars>>

\* a run() that returns without the other participants' final shares
RunReturnUnblocked(client_id) ==
    /\ party[client_id].at = "final"
    /\ \E value \in Field :
        party' = [party EXCEPT ![client_id].at = "done", ![client_id].result = value]
    /\ UNCHANGED <<share_dict, private_messages, public_messages, ttpVars>>

\* run(): retrieve every participant's final share and reconstruct
RunReconstruct(client_id) ==
    /\ party[client_id].at = "final"
    /\ AllPublished("final share", "")
    /\ \E value \in retrieve_and_reconstruct("final share", "") :
        party' = [party EXCEPT ![client_id].at = "done", ![client_id].result = value]
    /\ UNCHANGED <<share_dict, private_messages, public_messages, ttpVars>>

-----------------------------------------------------------------------------
(* credential.py: the pairing groups                                        *)
(* G1, G2 and GT are cyclic of the same prime order.  An element is held as *)
(* its discrete logarithm to the group's generator: the product of two      *)
(* elements adds the logarithms, a power multiplies by the exponent, and    *)
(* the pairing of g ** a with g_tilde ** b is the GT generator ** (a * b).  *)

\* G1.order(): the prime order of the three groups, a small prime in the model
GroupOrder == group_order

\* G1.order().random(): an integer from 0 (included) to the order (excluded)
OrderRandom == 0 .. (GroupOrder - 1)

\* G1.generator(), G2.generator() and G1.neutral_element()
Generator == 1
NeutralElement == 0

\* point * other, and point ** exponent for an integer exponent of any sign
GroupMul(point, other) == (point + other) % GroupOrder
GroupPow(point, exponent) == (point * exponent) % GroupOrder

\* generator.pair(product)
Pair(point, point_tilde) == (point * point_tilde) % GroupOrder

\* Bn.from_binary: the big-endian base-256 integer of a byte string
RECURSIVE FromBinary(_)
FromBinary(binary) ==
    IF binary = <<>> THEN 0
    ELSE 256 * FromBinary(SubSeq(binary, 1, Len(binary) - 1)) + binary[Len(binary)]

\* A dict is the sequence of its (key, value) items in insertion order.
Keys(dict) == [n \in 1 .. Len(dict) |-> dict[n][1]]
KeySet(dict) == {dict[n][1] : n \in 1 .. Len(dict)}
Get(dict, key) == (CHOOSE item \in {dict[n] : n \in 1 .. Len(dict)} : item[1] = key)[2]

\* {i: Y[i] for i in attributes.keys()}: the slots are numbered from 0
Subset(Y, attributes) ==
    [n \in 1 .. Len(attributes) |-> <<attributes[n][1], Y[attributes[n][1] + 1]>>]

\* bn_from_binary_collection of a dict and of a list
bn_from_binary_dict(binary_collection) ==
    [n \in 1 .. Len(binary_collection) |->
        <<binary_collection[n][1], FromBinary(binary_collection[n][2])>>]
bn_from_binary_collection(binary_collection) ==
    [n \in 1 .. Len(binary_collection) |-> FromBinary(binary_collection[n])]

\* math.prod(terms, start=shift)
RECURSIVE Prod(_, _)
Prod(terms, shift) ==
    IF terms = <<>> THEN shift
    ELSE Prod(Tail(terms), GroupMul(shift, Head(terms)))

\* point_product of two lists, once the assertion on the lengths has passed
point_product(points, exponents, shift) ==
    Prod([n \in 1 .. Len(points) |-> GroupPow(points[n], exponents[n])], shift)

\* point_product of two dicts: the exponent of a point is looked up by its key
point_product_dict(points, exponents, shift) ==
    Prod([n \in 1 .. Len(points) |->
            GroupPow(points[n][2], Get(exponents, points[n][1]))], shift)

\* a check that lets the neutral element through
trivial_check_passes(point) == TRUE

\* trivial_check
trivial_check(point) == point # NeutralElement

\* generate_key: every (sk, pk) the draws of x and y can give for L attributes
generate_key(L) ==
    {[sk |-> <<x, GroupPow(Generator, x), y>>,
      pk |-> <<Generator, [i \in 1 .. L |-> GroupPow(Generator, y[i])], Generator,
               GroupPow(Generator, x), [i \in 1 .. L |-> GroupPow(Generator, y[i])]>>] :
        x \in OrderRandom, y \in [1 .. L -> OrderRandom]}

\* sum(y_i * Bn.from_binary(msg) for y_i, msg in zip(y, msgs)), over the integers
RECURSIVE SumProducts(_, _)
SumProducts(y, msgs) ==
    IF y = <<>> \/ msgs = <<>> THEN 0
    ELSE Head(y) * FromBinary(Head(msgs)) + SumProducts(Tail(y), Tail(msgs))

\* a signature that leaves the messages out of the exponent
signOnlyX(sk, msgs) ==
    IF Len(msgs) # Len(sk[3]) THEN "AssertionError"
    ELSE <<Generator, GroupPow(Generator, sk[1])>>

\* sign
sign(sk, msgs) ==
    IF Len(msgs) # Len(sk[3]) THEN "AssertionError"
    ELSE <<Generator, GroupPow(Generator, sk[1] + SumProducts(sk[3], msgs))>>

\* verify: "True", "False", or the AssertionError point_product raises before
\* the signature is looked at
verify(pk, signature, msgs) ==
    IF Len(pk[5]) # Len(msgs) THEN "AssertionError"
    ELSE LET product == point_product(pk[5], bn_from_binary_collection(msgs), pk[4])
         IN  IF trivial_check(signature[1])
                /\ Pair(signature[1], product) = Pair(signature[2], pk[3])
             THEN "True" ELSE "False"

-----------------------------------------------------------------------------
(* credential.py: the issuance protocol *)

\* Bn.from_hex(sha256(...).hexdigest()): a 256-bit integer, not reduced modulo
\* the group order
HashValues == 0 .. GroupOrder

\* pickle_and_hash(obj): the digest computed before for the same object, any
\* digest for an object hashed for the first time
pickle_and_hash(obj) ==
    IF obj \in DOMAIN digests THEN {digests[obj]} ELSE HashValues

\* the digests computed so far, once obj has been hashed to challenge
Hashed(obj, challenge) ==
    [o \in DOMAIN digests \cup {obj} |-> IF o = obj THEN challenge ELSE digests[o]]

\* get_challenge
get_challenge(pk, commitment, alpha) == pickle_and_hash(<<pk, commitment, alpha>>)

\* create_issue_request: the commitment g ** t * prod(Y_i ** attribute_i)
Commitment(pk, user_attributes, t) ==
    point_product_dict(Subset(pk[2], user_attributes),
                       bn_from_binary_dict(user_attributes), GroupPow(pk[1], t))

\* get_pi_proof: alpha, from the draws z_0 and z = {i: z_i}
Alpha(pk, user_attributes, z_0, z) ==
    point_product_dict(Subset(pk[2], user_attributes), z, GroupPow(pk[1], z_0))

\* a proof whose T leaves the blinding t out
get_pi_proof_without_t(user_attributes, t, z_0, z, alpha, challenge) ==
    <<alpha,
      <<[n \in 1 .. Len(user_attributes) |->
            <<user_attributes[n][1],
              Get(z, user_attributes[n][1]) + challenge * FromBinary(user_attributes[n][2])>>],
        z_0>>>>

\* get_pi_proof: (alpha, (s, T)) from the draws, alpha and its challenge
get_pi_proof(user_attributes, t, z_0, z, alpha, challenge) ==
    <<alpha,
      <<[n \in 1 .. Len(user_attributes) |->
            <<user_attributes[n][1],
              Get(z, user_attributes[n][1]) + challenge * FromBinary(user_attributes[n][2])>>],
        z_0 + challenge * t>>>>

\* a verification that accepts every request
verify_issue_request_accepts(request, pk, challenge) == TRUE

\* verify_issue_request, given the challenge get_challenge returns
verify_issue_request(request, pk, challenge) ==
    LET commitment == request[1]
        alpha == request[2][1]
        s == request[2][2][1]
        T == request[2][2][2]
    IN  GroupMul(alpha, GroupPow(commitment, challenge))
            = point_product_dict(Subset(pk[2], s), s, GroupPow(pk[1], T))

\* sign_issue_request of a request that verifies, with the draw u
sign_issue_request(sk, pk, request, issuer_attributes, u) ==
    LET product_terms ==
            point_product_dict(Subset(pk[2], issuer_attributes),
                               bn_from_binary_dict(issuer_attributes),
                               GroupMul(sk[2], request[1]))
    IN  <<<<GroupPow(pk[1], u), GroupPow(product_terms, u)>>, issuer_attributes>>

\* {**issuer_attributes, **user_attributes}
Merge(issuer_attributes, user_attributes) ==
    [n \in 1 .. Len(issuer_attributes) |->
        IF issuer_attributes[n][1] \in KeySet(user_attributes)
        THEN <<issuer_attributes[n][1], Get(user_attributes, issuer_attributes[n][1])>>
        ELSE issuer_attributes[n]]
    \o SelectSeq(user_attributes, LAMBDA item : item[1] \notin KeySet(issuer_attributes))

\* sorted(keys)
RECURSIVE Sorted(_)
Sorted(keys) ==
    IF keys = {} THEN <<>>
    ELSE LET least == CHOOSE k \in keys : \A other \in keys : k <= other
         IN  <<least>> \o Sorted(keys \ {least})

\* [full_attributes[i] for i in sorted(full_attributes.keys())]
SortedAttributes(full_attributes) ==
    LET keys == Sorted(KeySet(full_attributes))
    IN  [n \in 1 .. Len(keys) |-> Get(full_attributes, keys[n])]

\* obtain_credential: the unblinded signature and the full attribute map
Unblinded(response, user_state) ==
    <<<<response[1][1],
        GroupMul(response[1][2], GroupPow(response[1][1], 0 - user_state.t))>>,
      Merge(response[2], user_state.user_attributes)>>

\* obtain_credential: the credential it returns, or the error it raises
obtain_credential(pk, response, user_state) ==
    LET credential == Unblinded(response, user_state)
        verdict == verify(pk, credential[1], SortedAttributes(credential[2]))
    IN  IF verdict = "AssertionError" THEN [raises |-> "AssertionError", credential |-> <<>>]
        ELSE IF verdict = "False" THEN [raises |-> "ValueError", credential |-> <<>>]
        ELSE [raises |-> "", credential |-> credential]

-----------------------------------------------------------------------------
(* credential.py: the showing protocol                                      *)
(* An element of GT is held as its logarithm to the pairing of the two      *)
(* generators.  The list hidden_attributes holds Python values of any type: *)
(* a byte string b is the item <<"bytes", b>>, an integer n is <<"int", n>>. *)

\* attribute in hidden_attributes: a byte string equals no integer
InList(attribute, hidden_attributes) ==
    \E n \in 1 .. Len(hidden_attributes) : hidden_attributes[n] = <<"bytes", attribute>>

\* get_disclosure_challenge
get_disclosure_challenge(pk, randomized_signature, commitment, message, alpha) ==
    pickle_and_hash(<<pk, randomized_signature, commitment, message, alpha>>)

\* create_disclosure_proof: (signature[0] ** r, (signature[1] * signature[0] ** t) ** r)
Randomized(signature, r, t) ==
    <<GroupPow(signature[1], r),
      GroupPow(GroupMul(signature[2], GroupPow(signature[1], t)), r)>>

\* get_disclosure_proof: the items of full_credentials whose value is in
\* hidden_attributes
IndexedHidden(full_credentials, hidden_attributes) ==
    SelectSeq(full_credentials, LAMBDA item : InList(item[2], hidden_attributes))

\* get_disclosure_proof: {i: s1.pair(Y_tilde[i]) for i in indexed_hidden_attributes.keys()}
PairTerms(pk, s1, attributes) ==
    [n \in 1 .. Len(attributes) |->
        <<attributes[n][1], Pair(s1, pk[5][attributes[n][1] + 1])>>]

\* get_disclosure_proof: commit
ShowCommit(pk, indexed_hidden_attributes, s1, t) ==
    point_product_dict(PairTerms(pk, s1, indexed_hidden_attributes),
                       bn_from_binary_dict(indexed_hidden_attributes),
                       GroupPow(Pair(s1, pk[3]), t))

\* get_disclosure_proof: alpha, from the draws z_prime and z = {i: z_i}
ShowAlpha(pk, indexed_hidden_attributes, s1, z_prime, z) ==
    point_product_dict(PairTerms(pk, s1, indexed_hidden_attributes), z,
                       GroupPow(Pair(s1, pk[3]), z_prime))

\* a proof whose responses s_i leave the attributes out
get_disclosure_proof_without_attributes(indexed_hidden_attributes, t, z_prime, z, commit, alpha, challenge) ==
    <<commit, alpha,
      [n \in 1 .. Len(indexed_hidden_attributes) |->
          <<indexed_hidden_attributes[n][1], Get(z, indexed_hidden_attributes[n][1])>>],
      z_prime + challenge * t>>

\* get_disclosure_proof: (commit, alpha, s, T) from the draws, commit, alpha and
\* their challenge
get_disclosure_proof(indexed_hidden_attributes, t, z_prime, z, commit, alpha, challenge) ==
    <<commit, alpha,
      [n \in 1 .. Len(indexed_hidden_attributes) |->
          <<indexed_hidden_attributes[n][1],
            Get(z, indexed_hidden_attributes[n][1])
                + challenge * FromBinary(indexed_hidden_attributes[n][2])>>],
      z_prime + challenge * t>>

\* a disclosed map that keeps the hidden attributes too
DisclosedAll(full_credentials, indexed_hidden_credentials) == full_credentials

\* create_disclosure_proof: {i: full_credentials[i] for i in
\* full_credentials.keys() - indexed_hidden_credentials.keys()}, a set of small
\* integers being iterated in increasing order
Disclosed(full_credentials, indexed_hidden_credentials) ==
    LET keys == Sorted(KeySet(full_credentials) \ KeySet(indexed_hidden_credentials))
    IN  [n \in 1 .. Len(keys) |-> <<keys[n], Get(full_credentials, keys[n])>>]

\* verify_disclosure_proof: {i: s1.pair(y) for i, y in enumerate(Y_tilde) if i in keys}
PairedTerms(pk, s1, keys) ==
    LET slots == Sorted({i \in 0 .. (Len(pk[5]) - 1) : i \in keys})
    IN  [n \in 1 .. Len(slots) |-> <<slots[n], Pair(s1, pk[5][slots[n] + 1])>>]

\* verify_disclosure_proof, given the challenge get_disclosure_challenge
\* returns: "True", "False", or the AssertionError of point_product
verify_disclosure_proof(pk, disclosure_proof, challenge) ==
    LET s1 == disclosure_proof[1][1]
        s2 == disclosure_proof[1][2]
        commit == disclosure_proof[2][1]
        alpha == disclosure_proof[2][2]
        s == disclosure_proof[2][3]
        T == disclosure_proof[2][4]
        indexed_disclosed_attributes == disclosure_proof[3]
        disclosed_paired_terms == PairedTerms(pk, s1, KeySet(indexed_disclosed_attributes))
        hidden_paired_terms == PairedTerms(pk, s1, KeySet(s))
        attributes == bn_from_binary_dict(indexed_disclosed_attributes)
        exponents == [n \in 1 .. Len(attributes) |-> <<attributes[n][1], 0 - attributes[n][2]>>]
    IN  IF \/ Len(disclosed_paired_terms) # Len(exponents)
           \/ Len(hidden_paired_terms) # Len(s)
        THEN "AssertionError"
        ELSE IF /\ trivial_check(s1)
                /\ GroupMul(GroupPow(commit, challenge), alpha)
                       = point_product_dict(hidden_paired_terms, s,
                                            GroupPow(Pair(s1, pk[3]), T))
                /\ GroupMul(Pair(s1, pk[4]), commit)
                       = point_product_dict(disclosed_paired_terms, exponents,
                                            Pair(s2, pk[3]))
             THEN "True" ELSE "False"

-----------------------------------------------------------------------------
(* Credential facade (stroll.py): Server and Client glue the issuance and   *)
(* the showing protocol; every value that crosses between them is encoded   *)
(* with jsonpickle and decoded by the receiving method                      *)

\* jsonpickle.encode and jsonpickle.decode: a self-describing encoding of a
\* value, which decode turns back into the value
jsonpickle_encode(obj) == <<"json", obj>>
jsonpickle_decode(data) == data[2]

\* str.encode('utf-8') of the names the client encodes: ASCII letters
Utf8(name) ==
    CASE name = "a" -> <<97>>
      [] name = "b" -> <<98>>
      [] name = "u" -> <<117>>

\* dict[key] = value: a key already there keeps its place
SetItem(dict, key, value) ==
    IF key \in KeySet(dict)
    THEN [n \in 1 .. Len(dict) |-> IF dict[n][1] = key THEN <<key, value>> ELSE dict[n]]
    ELSE Append(dict, <<key, value>>)

\* {subscription: i for i, subscription in enumerate(subscriptions)}, up to
\* the n-th subscription
RECURSIVE Enumerated(_, _)
Enumerated(subscriptions, n) ==
    IF n = 0 THEN <<>>
    ELSE SetItem(Enumerated(subscriptions, n - 1), subscriptions[n], n - 1)

\* generate_ca: the subscription map
SubscriptionMap(subscriptions) ==
    SetItem(Enumerated(subscriptions, Len(subscriptions)), "password", Len(subscriptions))

\* Server.generate_ca(subscriptions): every (server_sk, server_pk) the draws
\* of generate_key can give
generate_ca(subscriptions) ==
    {[server_sk |-> jsonpickle_encode(key.sk),
      server_pk |-> jsonpickle_encode(<<key.pk, SubscriptionMap(subscriptions)>>)] :
        key \in generate_key(Len(subscriptions) + 1)}

\* Client.prepare_registration: the KeyError of subscriptionMap[...] for a
\* name the map does not have
prepare_registration_raises(subscriptionMap, subscriptions) ==
    IF \/ \E n \in 1 .. Len(subscriptions) : subscriptions[n] \notin KeySet(subscriptionMap)
       \/ "username" \notin KeySet(subscriptionMap)
    THEN "KeyError" ELSE ""

\* Client.prepare_registration: user_attributes, up to the n-th subscription
RECURSIVE SubscriptionAttributes(_, _, _)
SubscriptionAttributes(subscriptionMap, subscriptions, n) ==
    IF n = 0 THEN <<>>
    ELSE SetItem(SubscriptionAttributes(subscriptionMap, subscriptions, n - 1),
                 Get(subscriptionMap, subscriptions[n]), Utf8(subscriptions[n]))

\* Client.prepare_registration: user_attributes
UserAttributes(subscriptionMap, username, subscriptions, password) ==
    SetItem(SetItem(SubscriptionAttributes(subscriptionMap, subscriptions,
                                           Len(subscriptions)),
                    Get(subscriptionMap, "username"), Utf8(username)),
            Get(subscriptionMap, "password"), password)

\* a check that asks for the password slot only
registration_check_password_only(subscriptionMap, user_attributes_indices) ==
    IF "password" \notin KeySet(subscriptionMap) THEN "KeyError"
    ELSE IF Get(subscriptionMap, "password") \notin user_attributes_indices
         THEN "ValueError"
         ELSE ""

\* Server.process_registration: the error raised on the user's indices, ""
\* when there is none
registration_check(subscriptionMap, user_attributes_indices) ==
    IF "password" \notin KeySet(subscriptionMap) THEN "KeyError"
    ELSE IF Get(subscriptionMap, "password") \notin user_attributes_indices
         THEN "ValueError"
    ELSE IF "username" \notin KeySet(subscriptionMap) THEN "KeyError"
    ELSE IF Get(subscriptionMap, "username") \notin user_attributes_indices
         THEN "ValueError"
         ELSE ""

\* Server.process_registration: set(subscriptionMap.values()) - user_attributes_indices
IssuerIndices(subscriptionMap, user_attributes_indices) ==
    {subscriptionMap[n][2] : n \in 1 .. Len(subscriptionMap)} \ user_attributes_indices

\* a check that raises for unknown names only
sign_request_raises_on_unknown(subscriptionMap, types) ==
    IF \E t \in types : t \notin KeySet(subscriptionMap) THEN "KeyError"
    ELSE ""

\* Client.sign_request: the error raised on the names to disclose, "" when
\* there is none
sign_request_raises(subscriptionMap, types) ==
    IF "password" \in types THEN "ValueError"
    ELSE IF \E t \in types : t \notin KeySet(subscriptionMap) THEN "KeyError"
    ELSE ""

\* Client.sign_request: subscription_indices
SubscriptionIndices(subscriptionMap, types) ==
    {Get(subscriptionMap, t) : t \in types}

\* Client.sign_request: hidden_attributes, a list of integers
HiddenIndices(subscriptionMap, full_attributes, types) ==
    LET indices == Sorted(KeySet(full_attributes)
                              \ SubscriptionIndices(subscriptionMap, types))
    IN  [n \in 1 .. Len(indices) |-> <<"int", indices[n]>>]

-----------------------------------------------------------------------------
(* Specification of the sharing functions: inputs drawn from bounded sets *)

\* the primes each specification draws unique_prime from
SharePrimes == {2, 3, 5}
TtpPrimes == {2}

ShareIdle == sh = [op |-> "none", secret |-> 0, shares |-> <<>>, result |-> 0]

\* TrustedParamGenerator.__init__: no participant, an empty table, no call yet
TtpIdle ==
    /\ participant_ids = {}
    /\ triplets = <<>>
    /\ ttp_ret = [client_id |-> "", op_id |-> "", slice |-> <<>>, before |-> <<>>]

\* no key, no signature, no issuance, no digest and no showing yet
ShowIdle ==
    /\ ps = [at |-> "none"]
    /\ iss = [at |-> "none"]
    /\ digests = <<>>
    /\ show = [at |-> "none"]
    /\ stroll = [at |-> "none"]

\* the same, in groups of order 3
CredIdle ==
    /\ group_order = 3
    /\ ps = [at |-> "none"]
    /\ iss = [at |-> "none"]
    /\ digests = <<>>
    /\ show = [at |-> "none"]
    /\ stroll = [at |-> "none"]

\* no protocol run
SmcIdle ==
    /\ protocol_spec = <<>>
    /\ value_dict = <<>>
    /\ share_dict = <<>>
    /\ party = <<>>
    /\ private_messages = <<>>
    /\ public_messages = <<>>

\* reconstruct_secret(share_secret(v, N)) for v in Z_p and 2 <= N <= MaxShares
ShareAndReconstruct ==
    \E v \in Field, n \in 2 .. MaxShares :
        \E shares \in share_secret(v, n) :
            /\ sh' = [op |-> "share_secret", secret |-> v, shares |-> shares,
                      result |-> reconstruct_secret(shares)]
            /\ UNCHANGED <<unique_prime, ttpVars, smcVars, credVars>>

\* the integers an operand of a Share operator is drawn from: the value of a
\* share, or a scalar of either sign
Operands == (0 - UniquePrime) .. UniquePrime

\* s + other, s - other, s * other for a share s and a share or scalar other
ShareOperate ==
    \E value \in Field, other \in Operands :
        \/ \E result \in ShareAdd(value, other) :
            /\ sh' = [op |-> "add", secret |-> 0, shares |-> <<value, other>>,
                      result |-> result]
            /\ UNCHANGED <<unique_prime, ttpVars, smcVars, credVars>>
        \/ \E result \in ShareSub(value, other) :
            /\ sh' = [op |-> "sub", secret |-> 0, shares |-> <<value, other>>,
                      result |-> result]
            /\ UNCHANGED <<unique_prime, ttpVars, smcVars, credVars>>
        \/ \E result \in ShareMul(value, other) :
            /\ sh' = [op |-> "mul", secret |-> 0, shares |-> <<value, other>>,
                      result |-> result]
            /\ UNCHANGED <<unique_prime, ttpVars, smcVars, credVars>>

\* Share.deserialize(s.serialize()) of a Share s with any field value
ShareRoundTrip ==
    \E value \in Field :
        \E result \in deserialize(serialize(value)) :
            /\ sh' = [op |-> "deserialize", secret |-> 0, shares |-> <<value>>,
                      result |-> result]
            /\ UNCHANGED <<unique_prime, ttpVars, smcVars, credVars>>

InitShare == unique_prime \in SharePrimes /\ ShareIdle /\ TtpIdle /\ SmcIdle /\ CredIdle

NextShare == ShareAndReconstruct \/ ShareOperate \/ ShareRoundTrip

SpecShare == InitShare /\ [][NextShare]_vars

\* C2: for every v in Z_p and N >= 2, reconstruct_secret(share_secret(v, N)) = v
\* whatever random shares are drawn.
C2_ReconstructInverts ==
    sh.op = "share_secret" => sh.result = sh.secret

\* C27: the Share operators are homomorphic modulo p for every operand,
\* including operands whose result is 0: (s1 + s2).value is
\* (s1.value + s2.value) mod p, and likewise for - and for * by a scalar
C27_OperatorsHomomorphic ==
    /\ sh.op = "add" => sh.result = (sh.shares[1] + sh.shares[2]) % UniquePrime
    /\ sh.op = "sub" => sh.result = (sh.shares[1] - sh.shares[2]) % UniquePrime
    /\ sh.op = "mul" => sh.result = (sh.shares[1] * sh.shares[2]) % UniquePrime

\* C37: Share.deserialize(s.serialize()) has the field value of s for every
\* Share s, a share of value 0 included
C37_SerializationRoundTrip ==
    sh.op = "deserialize" => sh.result = sh.shares[1]

-----------------------------------------------------------------------------
(* Specification of the dealer: participants register and request slices *)

TtpAddParticipant ==
    \E participant_id \in Parties :
        add_participant(participant_id) /\ UNCHANGED <<unique_prime, shareVars, smcVars, credVars>>

TtpRetrieveShare ==
    \E client_id \in Parties, op_id \in OpIds :
        retrieve_share(client_id, op_id) /\ UNCHANGED <<unique_prime, shareVars, smcVars, credVars>>

InitTTP == unique_prime \in TtpPrimes /\ ShareIdle /\ TtpIdle /\ SmcIdle /\ CredIdle

NextTTP == TtpAddParticipant \/ TtpRetrieveShare

SpecTTP == InitTTP /\ [][NextTTP]_vars

\* sum of one column (1: a, 2: b, 3: c) of an op_id's table entry, modulo p
RECURSIVE ColumnSum(_, _, _)
ColumnSum(entries, clients, col) ==
    IF clients = {} THEN 0
    ELSE LET client_id == CHOOSE x \in clients : TRUE
         IN (entries[client_id][col] + ColumnSum(entries, clients \ {client_id}, col))
                % UniquePrime

\* C3: for every op_id the slices handed out reconstruct to a, b, c with
\* a * b = c (mod p), whatever random values are drawn.
C3_BeaverConsistent ==
    \A op_id \in DOMAIN triplets :
        LET entries == triplets[op_id] IN
        (ColumnSum(entries, DOMAIN entries, 1) * ColumnSum(entries, DOMAIN entries, 2))
            % UniquePrime
        = ColumnSum(entries, DOMAIN entries, 3)

\* C4: retrieve_share is memoized per op_id: a call whose (client_id, op_id)
\* was answered before returns the same slice again, and no call changes the
\* table entry (hence the reconstructed a, b, c) of an op_id already generated.
C4_Memoized ==
    [][ /\ \A op_id \in DOMAIN triplets :
                op_id \in DOMAIN triplets' /\ triplets'[op_id] = triplets[op_id]
        /\ ttp_ret'.before # <<>> => ttp_ret'.slice = ttp_ret'.before ]_vars

\* a slice was handed out again for an (client_id, op_id) answered before,
\* while the other op_id is in the table as well
C4_Witness ==
    /\ ttp_ret.before # <<>>
    /\ ttp_ret.slice = ttp_ret.before
    /\ DOMAIN triplets = OpIds

-----------------------------------------------------------------------------
(* Specification of a protocol run: every party runs SMCParty.run() on the   *)
(* same ProtocolSpec, the dealer knows the participants                      *)

\* the owner of each Secret of the expressions below
SecretOwner == [a |-> "Alice", b |-> "Bob"]

\* the expressions evaluated without the dealer, run modulo 3
LocalExpressions ==
    { Add(Secret("a"), Secret("b"), "n1"),
      Add(Secret("a"), Secret("a"), "n1"),
      Add(Secret("a"), Scalar(1), "n1"),
      Add(Secret("a"), Scalar(0), "n1"),
      Add(Scalar(1), Scalar(1), "n1"),
      Mul(Secret("a"), Scalar(2), "n1"),
      Mul(Secret("a"), Scalar(0), "n1"),
      Mul(Add(Scalar(1), Secret("b"), "n1"), Scalar(2), "n2") }

\* the expressions that multiply two shares, run modulo 2 (one Beaver triplet
\* modulo 3 alone has several hundred outcomes)
BeaverExpressions ==
    { Mul(Secret("a"), Secret("b"), "n1") }

\* the runs checked: the prime of the processes and the expression
SmcRuns ==
    { [prime |-> 3, expr |-> expr] : expr \in LocalExpressions }
    \cup { [prime |-> 2, expr |-> expr] : expr \in BeaverExpressions }

RECURSIVE SecretsIn(_)
SecretsIn(expr) ==
    IF expr.type \in {"Add", "Mul"} THEN SecretsIn(expr.left) \cup SecretsIn(expr.right)
    ELSE IF expr.type = "Secret" THEN {expr.id}
    ELSE {}

InitSMC ==
    /\ ShareIdle
    /\ CredIdle
    /\ participant_ids = Parties
    /\ triplets = <<>>
    /\ ttp_ret = [client_id |-> "", op_id |-> "", slice |-> <<>>, before |-> <<>>]
    /\ \E run \in SmcRuns :
        /\ unique_prime = run.prime
        /\ protocol_spec = [expr |-> run.expr,
                            participant_ids |-> SubSeq(AllParties, 1, NumParties)]
        /\ \E values \in [SecretsIn(run.expr) -> 0 .. (run.prime - 1)] :
            value_dict = [ client_id \in Parties |->
                            [ id \in { x \in SecretsIn(run.expr) : SecretOwner[x] = client_id } |->
                                values[id] ] ]
    /\ share_dict = [client_id \in Parties |-> <<>>]
    /\ party = [client_id \in Parties |->
                    [at |-> "eval", pc |-> 1, stack |-> <<>>, share_c |-> 0, result |-> 0]]
    /\ private_messages = <<>>
    /\ public_messages = <<>>

SmcFrame == UNCHANGED <<unique_prime, shareVars, protocol_spec, value_dict, credVars>>

SmcProcessScalar == \E client_id \in Parties : ProcessScalar(client_id) /\ SmcFrame
SmcProcessSecretCached == \E client_id \in Parties : ProcessSecretCached(client_id) /\ SmcFrame
SmcProcessSecretOwner == \E client_id \in Parties : ProcessSecretOwner(client_id) /\ SmcFrame
SmcProcessSecretReceive == \E client_id \in Parties : ProcessSecretReceive(client_id) /\ SmcFrame
SmcProcessAdd == \E client_id \in Parties : ProcessAdd(client_id) /\ SmcFrame
SmcProcessMulScalar == \E client_id \in Parties : ProcessMulScalar(client_id) /\ SmcFrame
SmcProcessMulPublish == \E client_id \in Parties : ProcessMulPublish(client_id) /\ SmcFrame
SmcProcessMulReconstruct == \E client_id \in Parties : ProcessMulReconstruct(client_id) /\ SmcFrame
SmcRunPublish == \E client_id \in Parties : RunPublish(client_id) /\ SmcFrame
SmcRunRaise == \E client_id \in Parties : RunRaise(client_id) /\ SmcFrame
SmcRunReconstruct == \E client_id \in Parties : RunReconstruct(client_id) /\ SmcFrame

NextSMC ==
    \/ SmcProcessScalar
    \/ SmcProcessSecretCached
    \/ SmcProcessSecretOwner
    \/ SmcProcessSecretReceive
    \/ SmcProcessAdd
    \/ SmcProcessMulScalar
    \/ SmcProcessMulPublish
    \/ SmcProcessMulReconstruct
    \/ SmcRunPublish
    \/ SmcRunRaise
    \/ SmcRunReconstruct

SpecSMC == InitSMC /\ [][NextSMC]_vars

\* the value of the expression over the integers, from all parties' inputs
RECURSIVE TrueValue(_)
TrueValue(expr) ==
    IF expr.type = "Add" THEN TrueValue(expr.left) + TrueValue(expr.right)
    ELSE IF expr.type = "Mul" THEN TrueValue(expr.left) * TrueValue(expr.right)
    ELSE IF expr.type = "Secret" THEN value_dict[SecretOwner[expr.id]][expr.id]
    ELSE expr.value

\* C1: for every expression whose true value lies in Z_p, what a party's
\* run() returns is the value of the expression modulo p.
C1_RunReturnsValue ==
    TrueValue(protocol_spec.expr) \in Field =>
        \A client_id \in Parties :
            party[client_id].at = "done" =>
                party[client_id].result = TrueValue(protocol_spec.expr) % UniquePrime

\* C36: all the parties that complete run() in one protocol run return the
\* same value, each reconstructing from the same published final shares
C36_PartiesAgree ==
    \A client_id \in Parties, other_id \in Parties :
        (party[client_id].at = "done" /\ party[other_id].at = "done") =>
            party[client_id].result = party[other_id].result

\* the values the parties hold for the root once each has evaluated it
RootShares ==
    [ k \in DOMAIN protocol_spec.participant_ids |->
        Right(protocol_spec.participant_ids[k]).value ]

AllEvaluated ==
    \A client_id \in Parties :
        /\ party[client_id].at \in {"eval", "final", "done"}
        /\ party[client_id].pc = Len(Visits(protocol_spec.expr)) + 1

\* the value the parties' shares of the Secret `id` are a sharing of
SharedValue(id) ==
    reconstruct_secret([ k \in DOMAIN protocol_spec.participant_ids |->
                            share_dict[protocol_spec.participant_ids[k]][id] ])

\* C25: for a Mul node whose operands are sharings of x and y, the parties'
\* local results share_c + E * share_x + D * share_y - D * E * [lowest id]
\* sum to x * y modulo p
C25_BeaverSharesMultiply ==
    (protocol_spec.expr \in BeaverExpressions /\ AllEvaluated) =>
        SumSeq(RootShares) % UniquePrime
            = (SharedValue(protocol_spec.expr.left.id)
                * SharedValue(protocol_spec.expr.right.id)) % UniquePrime

\* C28: each party shares or receives each Secret at most once per run: once
\* a party holds its share of a Secret, no step replaces that share or sends
\* or replaces a private share message, and a later reference to the Secret
\* returns the share held
C28_SecretSharedOnce ==
    [][\A client_id \in Parties :
        /\ \A id \in DOMAIN share_dict[client_id] :
            /\ id \in DOMAIN share_dict'[client_id]
            /\ share_dict'[client_id][id] = share_dict[client_id][id]
        /\ (/\ Evaluating(client_id, "Secret")
            /\ Node(client_id).id \in DOMAIN share_dict[client_id]
            /\ party'[client_id] # party[client_id]) =>
                /\ private_messages' = private_messages
                /\ share_dict' = share_dict
                /\ party'[client_id].stack[Len(party'[client_id].stack)]
                    = AShare(share_dict[client_id][Node(client_id).id])]_vars

\* both parties have evaluated both references of Add(a, a): each holds one
\* share of a and returned it twice, and one private message was sent
C28_Witness ==
    /\ protocol_spec.expr = Add(Secret("a"), Secret("a"), "n1")
    /\ \A client_id \in Parties :
        /\ party[client_id].at = "eval"
        /\ party[client_id].pc = 3
        /\ Left(client_id) = AShare(share_dict[client_id]["a"])
        /\ Right(client_id) = AShare(share_dict[client_id]["a"])
    /\ DOMAIN private_messages = {<<"Bob", "share", "a">>}

\* C26: for an Add of a share and a scalar, only the party with the lowest
\* participant id adds the scalar, every other party returns its share
\* unchanged, and the parties' results sum to x + scalar modulo p
C26_ScalarAddedOnce ==
    (/\ protocol_spec.expr \in {Add(Secret("a"), Scalar(k), "n1") : k \in 0 .. 1}
     /\ AllEvaluated) =>
        /\ \A client_id \in Parties :
            ~IsFirst(client_id) =>
                Right(client_id).value = share_dict[client_id]["a"]
        /\ SumSeq(RootShares) % UniquePrime
            = (SharedValue("a") + protocol_spec.expr.right.value) % UniquePrime

-----------------------------------------------------------------------------
(* Specification of protocol runs in which a party can abort: the runs of   *)
(* SpecSMC without the dealer for every input, the run with the dealer for  *)
(* one input, and a party that stops before it publishes its final share    *)

\* the inputs of the run with the dealer
AbortInputs == {1}

AbortRuns ==
    { [prime |-> 3, expr |-> expr, inputs |-> 0 .. 2] : expr \in LocalExpressions }
    \cup { [prime |-> 2, expr |-> expr, inputs |-> AbortInputs] : expr \in BeaverExpressions }

InitAbort ==
    /\ ShareIdle
    /\ CredIdle
    /\ participant_ids = Parties
    /\ triplets = <<>>
    /\ ttp_ret = [client_id |-> "", op_id |-> "", slice |-> <<>>, before |-> <<>>]
    /\ \E run \in AbortRuns :
        /\ unique_prime = run.prime
        /\ protocol_spec = [expr |-> run.expr,
                            participant_ids |-> SubSeq(AllParties, 1, NumParties)]
        /\ \E values \in [SecretsIn(run.expr) -> run.inputs] :
            value_dict = [ client_id \in Parties |->
                            [ id \in { x \in SecretsIn(run.expr) : SecretOwner[x] = client_id } |->
                                values[id] ] ]
    /\ share_dict = [client_id \in Parties |-> <<>>]
    /\ party = [client_id \in Parties |->
                    [at |-> "eval", pc |-> 1, stack |-> <<>>, share_c |-> 0, result |-> 0]]
    /\ private_messages = <<>>
    /\ public_messages = <<>>

\* the process of a party ends before run() publishes its final share
Abort(client_id) ==
    /\ party[client_id].at \in {"eval", "mul"}
    /\ party' = [party EXCEPT ![client_id].at = "aborted"]
    /\ UNCHANGED <<share_dict, private_messages, public_messages, ttpVars>>

SmcAbort == \E client_id \in Parties : Abort(client_id) /\ SmcFrame

NextAbort == NextSMC \/ SmcAbort

SpecAbort == InitAbort /\ [][NextAbort]_vars

\* a party has stopped before publishing its final share: its process ended,
\* or run() raised
Aborted(client_id) == party[client_id].at \in {"aborted", "AttributeError"}

\* C23: if any party aborts before publishing its final share, no remaining
\* party ever returns from run()
C23_AbortBlocksAll ==
    (\E client_id \in Parties : Aborted(client_id)) =>
        \A client_id \in Parties : party[client_id].at # "done"

\* Alice has aborted after sharing her secret; Bob has published his
\* differences for the Mul node and waits for hers
C23_Witness ==
    /\ party["Alice"].at = "aborted"
    /\ party["Bob"].at = "mul"
    /\ ~AllPublished("share: x - a multiplication", Node("Bob").id)

-----------------------------------------------------------------------------
(* Specification of protocol runs on an expression whose root adds two Mul  *)
(* nodes with the same id: one Mul object referenced twice, or two Mul      *)
(* objects whose ids coincide (gen_id() draws 4 random bytes, and an id can *)
(* be passed to the constructor).  process_mul reads only the id and the    *)
(* operands of a Mul node, so both give the same runs.  The runs of SpecSMC *)
(* without the dealer are included.                                         *)

DagExpressions ==
    { Add(Mul(Secret("a"), Secret("a"), "n1"), Mul(Secret("a"), Secret("a"), "n1"), "n2") }

DagRuns ==
    { [prime |-> 3, expr |-> expr, inputs |-> 0 .. 2] : expr \in LocalExpressions }
    \cup { [prime |-> 2, expr |-> expr, inputs |-> AbortInputs] : expr \in DagExpressions }

InitDag ==
    /\ ShareIdle
    /\ CredIdle
    /\ participant_ids = Parties
    /\ triplets = <<>>
    /\ ttp_ret = [client_id |-> "", op_id |-> "", slice |-> <<>>, before |-> <<>>]
    /\ \E run \in DagRuns :
        /\ unique_prime = run.prime
        /\ protocol_spec = [expr |-> run.expr,
                            participant_ids |-> SubSeq(AllParties, 1, NumParties)]
        /\ \E values \in [SecretsIn(run.expr) -> run.inputs] :
            value_dict = [ client_id \in Parties |->
                            [ id \in { x \in SecretsIn(run.expr) : SecretOwner[x] = client_id } |->
                                values[id] ] ]
    /\ share_dict = [client_id \in Parties |-> <<>>]
    /\ party = [client_id \in Parties |->
                    [at |-> "eval", pc |-> 1, stack |-> <<>>, share_c |-> 0, result |-> 0]]
    /\ private_messages = <<>>
    /\ public_messages = <<>>

SpecDag == InitDag /\ [][NextSMC]_vars

\* the visits of Mul nodes in the evaluation order of the expression
MulVisits ==
    { i \in DOMAIN Visits(protocol_spec.expr) : Visits(protocol_spec.expr)[i].type = "Mul" }

\* C29: each Mul node evaluated with two share operands consumes its own
\* fresh Beaver triplet and publishes under its own labels: once every party
\* has evaluated the expression, the dealer has generated one triplet per
\* Mul node and every party has bound two public slots per Mul node
C29_FreshTripletPerMul ==
    (protocol_spec.expr \in DagExpressions \cup BeaverExpressions /\ AllEvaluated) =>
        /\ Cardinality(DOMAIN triplets) = Cardinality(MulVisits)
        /\ Cardinality({ key \in DOMAIN public_messages : key[2] # "final share" })
            = 2 * NumParties * Cardinality(MulVisits)

\* C30: during one protocol run every public slot (sender, label) is written
\* exactly once, also when the same Mul node is referenced more than once: a
\* party never publishes under a label it has already published under
C30_SlotsWrittenOnce ==
    [][\A client_id \in Parties :
        /\ (party[client_id].at = "eval" /\ party'[client_id].at = "mul") =>
            /\ <<client_id, "share: x - a multiplication", Node(client_id).id>>
                    \notin DOMAIN public_messages
            /\ <<client_id, "share: y - b multiplication", Node(client_id).id>>
                    \notin DOMAIN public_messages
        /\ (party[client_id].at = "eval" /\ party'[client_id].at = "final") =>
            <<client_id, "final share", "">> \notin DOMAIN public_messages]_vars

-----------------------------------------------------------------------------
(* Specification of protocol runs under fair scheduling: every party is a   *)
(* process of its own that keeps running, so a step that stays possible is  *)
(* eventually taken; the runs are those of SpecSMC without the dealer       *)

InitRun ==
    /\ ShareIdle
    /\ CredIdle
    /\ participant_ids = Parties
    /\ triplets = <<>>
    /\ ttp_ret = [client_id |-> "", op_id |-> "", slice |-> <<>>, before |-> <<>>]
    /\ unique_prime = 3
    /\ \E expr \in LocalExpressions :
        /\ protocol_spec = [expr |-> expr,
                            participant_ids |-> SubSeq(AllParties, 1, NumParties)]
        /\ \E values \in [SecretsIn(expr) -> 0 .. 2] :
            value_dict = [ client_id \in Parties |->
                            [ id \in { x \in SecretsIn(expr) : SecretOwner[x] = client_id } |->
                                values[id] ] ]
    /\ share_dict = [client_id \in Parties |-> <<>>]
    /\ party = [client_id \in Parties |->
                    [at |-> "eval", pc |-> 1, stack |-> <<>>, share_c |-> 0, result |-> 0]]
    /\ private_messages = <<>>
    /\ public_messages = <<>>

NextRun ==
    \/ SmcProcessScalar
    \/ SmcProcessSecretCached
    \/ SmcProcessSecretOwner
    \/ SmcProcessSecretReceive
    \/ SmcProcessAdd
    \/ SmcProcessMulScalar
    \/ SmcRunPublish
    \/ SmcRunRaise
    \/ SmcRunReconstruct

SpecRun == InitRun /\ [][NextRun]_vars /\ WF_vars(NextRun)

\* C22: when every Secret is owned by exactly one participant, all parties
\* run and the bus delivers every message, every party eventually publishes
\* its final share, retrieves all final shares and returns from run()
C22_EveryPartyReturns ==
    <>(\A client_id \in Parties :
        /\ party[client_id].at = "done"
        /\ <<client_id, "final share", "">> \in DOMAIN public_messages)

-----------------------------------------------------------------------------
(* Specification of the signature scheme: a key pair is generated, a vector *)
(* of messages is signed, and a signature is verified on a vector           *)

\* largest number of attributes a key is generated for
MaxSlots == 2

\* the byte strings messages are drawn from: b"\x01" and b"\x00\x01" are the
\* same integer, b"\x03" is the group order
Messages == {<<1>>, <<2>>, <<0, 1>>, <<3>>}

\* the vectors of at most MaxSlots messages
MessageVectors == UNION {[1 .. n -> Messages] : n \in 0 .. MaxSlots}

\* the elements of G1
G1Elements == 0 .. (GroupOrder - 1)

\* sk, pk = generate_key(attributes)
PsGenerateKey ==
    /\ ps.at = "none"
    /\ \E L \in 0 .. MaxSlots :
        \E key \in generate_key(L) :
            ps' = [at |-> "key", sk |-> key.sk, pk |-> key.pk, msgs |-> <<>>,
                   signature |-> <<>>, of |-> "", vsignature |-> <<>>,
                   vmsgs |-> <<>>, verdict |-> ""]
    /\ UNCHANGED <<unique_prime, shareVars, ttpVars, smcVars, iss, digests, show, group_order, stroll>>

\* signature = sign(sk, msgs)
PsSign ==
    /\ ps.at = "key"
    /\ \E msgs \in MessageVectors :
        LET signature == sign(ps.sk, msgs) IN
        ps' = IF signature = "AssertionError"
              THEN [ps EXCEPT !.at = "AssertionError", !.msgs = msgs]
              ELSE [ps EXCEPT !.at = "signed", !.msgs = msgs, !.signature = signature]
    /\ UNCHANGED <<unique_prime, shareVars, ttpVars, smcVars, iss, digests, show, group_order, stroll>>

\* verify(pk, signature, msgs) of the signature sign returned, on any vector
PsVerify ==
    /\ ps.at = "signed"
    /\ \E msgs \in MessageVectors :
        ps' = [ps EXCEPT !.at = "verified", !.of = "sign",
                         !.vsignature = ps.signature, !.vmsgs = msgs,
                         !.verdict = verify(ps.pk, ps.signature, msgs)]
    /\ UNCHANGED <<unique_prime, shareVars, ttpVars, smcVars, iss, digests, show, group_order, stroll>>

\* verify(pk, signature, msgs) of any pair of elements of G1, on any vector
PsVerifyForged ==
    /\ ps.at = "key"
    /\ \E sigma_1 \in G1Elements, sigma_2 \in G1Elements, msgs \in MessageVectors :
        ps' = [ps EXCEPT !.at = "verified", !.of = "forged",
                         !.vsignature = <<sigma_1, sigma_2>>, !.vmsgs = msgs,
                         !.verdict = verify(ps.pk, <<sigma_1, sigma_2>>, msgs)]
    /\ UNCHANGED <<unique_prime, shareVars, ttpVars, smcVars, iss, digests, show, group_order, stroll>>

InitPS == unique_prime \in TtpPrimes /\ ShareIdle /\ TtpIdle /\ SmcIdle /\ CredIdle

NextPS == PsGenerateKey \/ PsSign \/ PsVerify \/ PsVerifyForged

SpecPS == InitPS /\ [][NextPS]_vars

\* C5: for every key pair generated for L slots and every message vector m of
\* length L, verify(pk, sign(sk, m), m) returns true.
C5_SignedVerifies ==
    (ps.at = "verified" /\ ps.of = "sign" /\ ps.vmsgs = ps.msgs) => ps.verdict = "True"

\* a signature on two different messages under a key without a zero exponent
\* has been verified on the vector it was made for
C5_Witness ==
    /\ ps.at = "verified" /\ ps.of = "sign" /\ ps.vmsgs = ps.msgs
    /\ Len(ps.msgs) = MaxSlots /\ ps.msgs[1] # ps.msgs[2]
    /\ \A i \in 1 .. MaxSlots : ps.sk[3][i] # 0
    /\ ps.sk[1] # 0
    /\ ps.verdict = "True"

\* C6: for every key pair and every two message vectors m, m' of length L that
\* differ in at least one slot, verify(pk, sign(sk, m), m') returns false.
C6_OtherMessagesRejected ==
    (/\ ps.at = "verified" /\ ps.of = "sign"
     /\ Len(ps.vmsgs) = Len(ps.msgs) /\ ps.vmsgs # ps.msgs) => ps.verdict = "False"

\* C7: verify returns false whenever sigma_1 is the neutral element of G1, for
\* every public key, every sigma_2 and every message vector.
C7_NeutralRejected ==
    (ps.at = "verified" /\ ps.vsignature[1] = NeutralElement) => ps.verdict = "False"

\* C24: verify returns a boolean verdict for every input; on a message vector
\* whose length differs from the key's slot count it returns false and raises
\* nothing
C24_VerifyReturnsBoolean ==
    ps.at = "verified" =>
        /\ ps.verdict \in {"True", "False"}
        /\ Len(ps.vmsgs) # Len(ps.pk[5]) => ps.verdict = "False"

-----------------------------------------------------------------------------
(* Specification of the issuance protocol: the issuer generates a key, the  *)
(* user creates a request, the request is verified as sent or altered, the  *)
(* issuer signs it and the user unblinds the signature                      *)

\* the byte strings attributes are drawn from
AttributeValues == {<<1>>, <<2>>}

\* every dict with the keys `indices` and values in `values`, in every
\* insertion order
Dicts(indices, values) ==
    {dict \in [1 .. Cardinality(indices) -> indices \X values] :
        KeySet(dict) = indices}

\* the values a response scalar is replaced by: the next ones, up to the one
\* that differs by the group order
OtherScalars(scalar) == {scalar + d : d \in 1 .. GroupOrder}

IssueFrame == UNCHANGED <<unique_prime, shareVars, ttpVars, smcVars, ps, show, group_order, stroll>>

\* sk, pk = generate_key(attributes)
IssueGenerateKey ==
    /\ iss.at = "none"
    /\ \E L \in 0 .. MaxSlots :
        \E key \in generate_key(L) :
            iss' = [at |-> "key", sk |-> key.sk, pk |-> key.pk,
                    user_state |-> [t |-> 0, user_attributes |-> <<>>],
                    request |-> <<>>, altered |-> "", verified |-> <<>>,
                    verdict |-> "", response |-> <<>>, credential |-> <<>>,
                    raises |-> ""]
    /\ UNCHANGED digests
    /\ IssueFrame

\* create_issue_request(pk, user_attributes, user_state)
IssueCreateRequest ==
    /\ iss.at = "key"
    /\ \E indices \in SUBSET (0 .. (Len(iss.pk[2]) - 1)) :
        \E user_attributes \in Dicts(indices, AttributeValues) :
        \E t \in OrderRandom, z_0 \in OrderRandom :
        \E draws \in [1 .. Len(user_attributes) -> OrderRandom] :
            LET z == [n \in 1 .. Len(user_attributes) |-> <<user_attributes[n][1], draws[n]>>]
                commitment == Commitment(iss.pk, user_attributes, t)
                alpha == Alpha(iss.pk, user_attributes, z_0, z)
            IN  \E challenge \in get_challenge(iss.pk, commitment, alpha) :
                    /\ iss' = [iss EXCEPT
                            !.at = "requested",
                            !.user_state = [t |-> t, user_attributes |-> user_attributes],
                            !.request = <<commitment,
                                          get_pi_proof(user_attributes, t, z_0, z,
                                                       alpha, challenge)>>]
                    /\ digests' = Hashed(<<iss.pk, commitment, alpha>>, challenge)
    /\ IssueFrame

\* verify_issue_request(request, pk) of any request under any key
Check(request, pk, altered) ==
    \E challenge \in get_challenge(pk, request[1], request[2][1]) :
        /\ iss' = [iss EXCEPT
                !.at = "checked", !.altered = altered,
                !.verified = <<request, pk>>,
                !.verdict = IF verify_issue_request(request, pk, challenge)
                            THEN "True" ELSE "False"]
        /\ digests' = Hashed(<<pk, request[1], request[2][1]>>, challenge)

\* verify_issue_request(request, pk) of the request as the user created it
IssueVerifyRequest ==
    /\ iss.at = "requested"
    /\ Check(iss.request, iss.pk, "")
    /\ IssueFrame

\* verify_issue_request of the request under pk with one element of Y replaced
IssueVerifyAlteredKey ==
    /\ iss.at = "requested"
    /\ \E i \in 1 .. Len(iss.pk[2]) :
        \E point \in G1Elements \ {iss.pk[2][i]} :
            Check(iss.request, [iss.pk EXCEPT ![2][i] = point], "Y")
    /\ IssueFrame

\* verify_issue_request of the request with one response scalar replaced
IssueVerifyAlteredResponse ==
    /\ iss.at = "requested"
    /\ LET s == iss.request[2][2][1]
           T == iss.request[2][2][2]
       IN  \/ \E scalar \in OtherScalars(T) :
                Check([iss.request EXCEPT ![2][2][2] = scalar], iss.pk, "T")
           \/ \E n \in 1 .. Len(s) :
                \E scalar \in OtherScalars(s[n][2]) :
                    Check([iss.request EXCEPT ![2][2][1][n][2] = scalar], iss.pk, "s")
    /\ IssueFrame

\* sign_issue_request(sk, pk, request, issuer_attributes): the issuer holds the
\* attributes of the slots the user left out
IssueSign ==
    /\ iss.at = "requested"
    /\ \E issuer_attributes \in
            Dicts((0 .. (Len(iss.pk[2]) - 1)) \ KeySet(iss.user_state.user_attributes),
                  AttributeValues) :
        \E challenge \in get_challenge(iss.pk, iss.request[1], iss.request[2][1]) :
            /\ digests' = Hashed(<<iss.pk, iss.request[1], iss.request[2][1]>>, challenge)
            /\ IF ~verify_issue_request(iss.request, iss.pk, challenge)
               THEN iss' = [iss EXCEPT !.at = "raised", !.raises = "ValueError"]
               ELSE \E u \in OrderRandom :
                        iss' = [iss EXCEPT
                            !.at = "signed",
                            !.response = sign_issue_request(iss.sk, iss.pk, iss.request,
                                                            issuer_attributes, u)]
    /\ IssueFrame

\* obtain_credential(pk, response, user_state)
IssueObtain ==
    /\ iss.at = "signed"
    /\ LET obtained == obtain_credential(iss.pk, iss.response, iss.user_state)
       IN  iss' = IF obtained.raises # ""
                  THEN [iss EXCEPT !.at = "raised", !.raises = obtained.raises]
                  ELSE [iss EXCEPT !.at = "credential",
                                   !.credential = obtained.credential]
    /\ UNCHANGED digests
    /\ IssueFrame

InitIssue == unique_prime \in TtpPrimes /\ ShareIdle /\ TtpIdle /\ SmcIdle /\ CredIdle

NextIssue ==
    \/ IssueGenerateKey
    \/ IssueCreateRequest
    \/ IssueVerifyRequest
    \/ IssueVerifyAlteredKey
    \/ IssueVerifyAlteredResponse
    \/ IssueSign
    \/ IssueObtain

SpecIssue == InitIssue /\ [][NextIssue]_vars

\* C8: for every key pair and every user attribute map over any subset of the
\* slot indices, in any insertion order, verify_issue_request of the request
\* create_issue_request returns is true, whatever t, z_0 and z_i are drawn.
C8_HonestRequestVerifies ==
    (iss.at = "checked" /\ iss.altered = "") => iss.verdict = "True"

\* a request over both slots, inserted in decreasing order of the index, with a
\* non-zero challenge and non-zero draws, has been verified
C8_Witness ==
    /\ iss.at = "checked" /\ iss.altered = "" /\ iss.verdict = "True"
    /\ Keys(iss.user_state.user_attributes) = <<1, 0>>
    /\ iss.user_state.t # 0
    /\ digests[<<iss.pk, iss.request[1], iss.request[2][1]>>] % GroupOrder # 0
    /\ \A i \in 1 .. Len(iss.pk[2]) : iss.pk[2][i] # NeutralElement

\* C9: an honest request no longer verifies after an element of Y in pk, or a
\* response scalar (an s_i or T), has been replaced by a different value.
C9_AlteredRequestRejected ==
    (iss.at = "checked" /\ iss.altered \in {"Y", "s", "T"}) => iss.verdict = "False"

\* C10: an honest issuance over disjoint index sets that cover the slots
\* completes without error whatever t and u are drawn, and the signature of
\* the credential verifies on the attributes sorted by index.
C10_IssuanceCompletes ==
    /\ iss.at # "raised"
    /\ iss.at = "credential" =>
           verify(iss.pk, iss.credential[1], SortedAttributes(iss.credential[2])) = "True"

-----------------------------------------------------------------------------
(* Specification of an issuance in which the issuer's attributes share an   *)
(* index with the attributes the user committed to, in groups of order 2:   *)
(* the attribute b"\x02" is the group order                                 *)

\* sign_issue_request(sk, pk, request, issuer_attributes) with issuer
\* attributes over any index set that meets the user's
IssueSignOverlapping ==
    /\ iss.at = "requested"
    /\ \E indices \in SUBSET (0 .. (Len(iss.pk[2]) - 1)) :
        /\ indices \cap KeySet(iss.user_state.user_attributes) # {}
        /\ \E issuer_attributes \in Dicts(indices, AttributeValues) :
            \E challenge \in get_challenge(iss.pk, iss.request[1], iss.request[2][1]) :
                /\ digests' = Hashed(<<iss.pk, iss.request[1], iss.request[2][1]>>, challenge)
                /\ IF ~verify_issue_request(iss.request, iss.pk, challenge)
                   THEN iss' = [iss EXCEPT !.at = "raised", !.raises = "ValueError"]
                   ELSE \E u \in OrderRandom :
                            iss' = [iss EXCEPT
                                !.at = "signed",
                                !.response = sign_issue_request(iss.sk, iss.pk, iss.request,
                                                                issuer_attributes, u)]
    /\ IssueFrame

InitOverlap ==
    /\ unique_prime \in TtpPrimes /\ ShareIdle /\ TtpIdle /\ SmcIdle
    /\ group_order = 2 /\ ShowIdle

NextOverlap ==
    \/ IssueGenerateKey
    \/ IssueCreateRequest
    \/ IssueSignOverlapping
    \/ IssueObtain

SpecOverlap == InitOverlap /\ [][NextOverlap]_vars

\* C32: when the issuer_attributes passed to sign_issue_request share an
\* index with the indices committed in the user's request, the run yields no
\* credential, whatever the attribute values are
C32_OverlapRejected ==
    iss.at = "credential" =>
        KeySet(iss.response[2]) \cap KeySet(iss.user_state.user_attributes) = {}

-----------------------------------------------------------------------------
(* Specification of obtain_credential alone: the user holds a state and     *)
(* receives any response, from an honest issuer or not                      *)

\* the user state after create_issue_request and any response (sigma_1,
\* sigma_2), issuer_attributes over any subset of the slots
ObtainReceive ==
    /\ iss.at = "none"
    /\ \E L \in 0 .. MaxSlots :
        \E key \in generate_key(L) :
        \E t \in OrderRandom, sigma_1 \in G1Elements, sigma_2 \in G1Elements :
        \E user_indices \in SUBSET (0 .. (L - 1)), issuer_indices \in SUBSET (0 .. (L - 1)) :
        \E user_attributes \in Dicts(user_indices, AttributeValues) :
        \E issuer_attributes \in Dicts(issuer_indices, AttributeValues) :
            iss' = [at |-> "signed", sk |-> key.sk, pk |-> key.pk,
                    user_state |-> [t |-> t, user_attributes |-> user_attributes],
                    request |-> <<>>, altered |-> "", verified |-> <<>>,
                    verdict |-> "",
                    response |-> <<<<sigma_1, sigma_2>>, issuer_attributes>>,
                    credential |-> <<>>, raises |-> ""]
    /\ UNCHANGED digests
    /\ IssueFrame

InitObtain == unique_prime \in TtpPrimes /\ ShareIdle /\ TtpIdle /\ SmcIdle /\ CredIdle

NextObtain == ObtainReceive \/ IssueObtain

SpecObtain == InitObtain /\ [][NextObtain]_vars

\* what verify says of the unblinded signature on the full attribute vector
\* sorted by index
UnblindedVerdict ==
    LET credential == Unblinded(iss.response, iss.user_state)
    IN  verify(iss.pk, credential[1], SortedAttributes(credential[2]))

\* C11: obtain_credential is fail-stop: every credential it returns carries a
\* signature that verifies under pk on the full attribute vector sorted by
\* index, and when the unblinded signature does not verify it raises
\* ValueError and returns no credential.
C11_ObtainFailStop ==
    /\ iss.at = "credential" =>
           /\ iss.credential = Unblinded(iss.response, iss.user_state)
           /\ UnblindedVerdict = "True"
    /\ (iss.at \in {"credential", "raised"} /\ UnblindedVerdict # "True") =>
           /\ iss.at = "raised"
           /\ iss.raises = "ValueError"
           /\ iss.credential = <<>>

-----------------------------------------------------------------------------
(* Specification of the showing protocol: the user obtains a credential     *)
(* from an honest issuance, the credential is used as obtained or tampered  *)
(* with, a disclosure proof is created for a message, and the proof is      *)
(* verified as created or with one element replaced                         *)

\* the messages a proof is created for, and the messages it is verified for
ShownMessages == {<<1>>}
ShowMessages == ShownMessages \cup {<<2>>}

\* the lists hidden_attributes of attribute values, one for every set of values
HiddenLists ==
    LET items == {<<"bytes", value>> : value \in AttributeValues}
    IN  UNION {{hidden \in [1 .. n -> items] :
                    \A i \in 1 .. n, j \in 1 .. n :
                        i < j => FromBinary(hidden[i][2]) < FromBinary(hidden[j][2])} :
               n \in 0 .. Cardinality(AttributeValues)}

\* the numbers of slots the key of a showing is generated for: every number
\* in groups of order 2, all but the largest in groups of order 3
ShowOrders == {2, 3}
ShowRuns == IF GroupOrder = 2 THEN 0 .. MaxSlots ELSE 0 .. (MaxSlots - 1)

ShowFrame == UNCHANGED <<unique_prime, shareVars, ttpVars, smcVars, ps, iss, group_order, stroll>>

\* sk, pk = generate_key(attributes)
ShowGenerateKey ==
    /\ show.at = "none"
    /\ \E run \in ShowRuns :
        \E key \in generate_key(run) :
            show' = [at |-> "key", sk |-> key.sk, pk |-> key.pk, credential |-> <<>>,
                     tampered |-> "", message |-> <<>>, proof |-> <<>>,
                     altered |-> "", vproof |-> <<>>, vmessage |-> <<>>,
                     verdict |-> ""]
    /\ UNCHANGED digests
    /\ ShowFrame

\* the credential of an honest issuance: create_issue_request,
\* sign_issue_request and obtain_credential, when it returns a credential
ShowObtainCredential ==
    /\ show.at = "key"
    /\ \E indices \in SUBSET (0 .. (Len(show.pk[2]) - 1)) :
        \E user_attributes \in Dicts(indices, AttributeValues) :
        \E issuer_attributes \in
                Dicts((0 .. (Len(show.pk[2]) - 1)) \ indices, AttributeValues) :
        \E t \in OrderRandom, u \in OrderRandom :
            LET request == <<Commitment(show.pk, user_attributes, t), <<>>>>
                response == sign_issue_request(show.sk, show.pk, request,
                                               issuer_attributes, u)
                obtained == obtain_credential(show.pk, response,
                                [t |-> t, user_attributes |-> user_attributes])
            IN  /\ obtained.raises = ""
                /\ show' = [show EXCEPT !.at = "credential",
                                        !.credential = obtained.credential]
    /\ UNCHANGED digests
    /\ ShowFrame

\* the credential with every attribute replaced by another value, with
\* sigma_2 replaced by another element, or with sigma_1 replaced by the
\* neutral element
ShowTamperCredential ==
    /\ show.at = "credential"
    /\ show.tampered = ""
    /\ LET signature == show.credential[1]
           attributes == show.credential[2]
       IN  \/ /\ attributes # <<>>
              /\ \E values \in [1 .. Len(attributes) -> AttributeValues] :
                    /\ \A n \in 1 .. Len(attributes) : values[n] # attributes[n][2]
                    /\ show' = [show EXCEPT
                            !.tampered = "attributes",
                            !.credential = <<signature,
                                [n \in 1 .. Len(attributes) |->
                                    <<attributes[n][1], values[n]>>]>>]
           \/ \E sigma_2 \in G1Elements \ {signature[2]} :
                show' = [show EXCEPT !.tampered = "sigma_2",
                                     !.credential = <<<<signature[1], sigma_2>>, attributes>>]
           \/ show' = [show EXCEPT !.tampered = "sigma_1",
                                   !.credential = <<<<NeutralElement, signature[2]>>,
                                                    attributes>>]
    /\ UNCHANGED digests
    /\ ShowFrame

\* create_disclosure_proof(pk, credential, hidden_attributes, message)
ShowCreateProof ==
    /\ show.at = "credential"
    /\ \E hidden_attributes \in HiddenLists, message \in ShownMessages :
        \E r \in OrderRandom, t \in OrderRandom, z_prime \in OrderRandom :
            LET randomized_signature == Randomized(show.credential[1], r, t)
                hidden == IndexedHidden(show.credential[2], hidden_attributes)
            IN  \E draws \in [1 .. Len(hidden) -> OrderRandom] :
                    LET z == [n \in 1 .. Len(hidden) |-> <<hidden[n][1], draws[n]>>]
                        commit == ShowCommit(show.pk, hidden, randomized_signature[1], t)
                        alpha == ShowAlpha(show.pk, hidden, randomized_signature[1],
                                           z_prime, z)
                    IN  \E challenge \in
                            get_disclosure_challenge(show.pk, randomized_signature,
                                                     commit, message, alpha) :
                            /\ show' = [show EXCEPT
                                    !.at = "proof", !.message = message,
                                    !.proof = <<randomized_signature,
                                                get_disclosure_proof(hidden, t, z_prime, z,
                                                    commit, alpha, challenge),
                                                Disclosed(show.credential[2], hidden)>>]
                            /\ digests' = Hashed(<<show.pk, randomized_signature, commit,
                                                   message, alpha>>, challenge)
    /\ ShowFrame

\* verify_disclosure_proof(pk, disclosure_proof, message) of any proof
ShowCheck(disclosure_proof, message, altered) ==
    \E challenge \in get_disclosure_challenge(show.pk, disclosure_proof[1],
                        disclosure_proof[2][1], message, disclosure_proof[2][2]) :
        /\ show' = [show EXCEPT
                !.at = "verified", !.altered = altered,
                !.vproof = disclosure_proof, !.vmessage = message,
                !.verdict = verify_disclosure_proof(show.pk, disclosure_proof, challenge)]
        /\ digests' = Hashed(<<show.pk, disclosure_proof[1], disclosure_proof[2][1],
                               message, disclosure_proof[2][2]>>, challenge)

\* verify_disclosure_proof of the proof as created, for any message
ShowVerify ==
    /\ show.at = "proof"
    /\ \E message \in ShowMessages : ShowCheck(show.proof, message, "")
    /\ ShowFrame

\* verify_disclosure_proof, for the message of the proof, of the proof of an
\* honest credential with one element replaced by a different value
ShowVerifyAltered ==
    /\ show.at = "proof"
    /\ show.tampered = ""
    /\ LET s == show.proof[2][3]
           disclosed == show.proof[3]
       IN  \/ \E n \in 1 .. Len(s) :
                \E scalar \in OtherScalars(s[n][2]) :
                    ShowCheck([show.proof EXCEPT ![2][3][n][2] = scalar], show.message, "s")
           \/ \E scalar \in OtherScalars(show.proof[2][4]) :
                ShowCheck([show.proof EXCEPT ![2][4] = scalar], show.message, "T")
           \/ \E element \in G1Elements \ {show.proof[2][2]} :
                ShowCheck([show.proof EXCEPT ![2][2] = element], show.message, "alpha")
           \/ \E element \in G1Elements \ {show.proof[2][1]} :
                ShowCheck([show.proof EXCEPT ![2][1] = element], show.message, "K")
           \/ \E element \in G1Elements \ {show.proof[1][1]} :
                ShowCheck([show.proof EXCEPT ![1][1] = element], show.message, "s1")
           \/ \E element \in G1Elements \ {show.proof[1][2]} :
                ShowCheck([show.proof EXCEPT ![1][2] = element], show.message, "s2")
           \/ \E n \in 1 .. Len(disclosed) :
                \E value \in AttributeValues \ {disclosed[n][2]} :
                    ShowCheck([show.proof EXCEPT ![3][n][2] = value], show.message,
                              "disclosed")
    /\ ShowFrame

\* verify_disclosure_proof of the proof of an honest credential, made to
\* disclose one more attribute, for an index the key has no slot for
ShowVerifyOutOfRange ==
    /\ show.at = "proof"
    /\ show.tampered = ""
    /\ \E value \in AttributeValues :
        ShowCheck([show.proof EXCEPT ![3] = Append(@, <<Len(show.pk[2]), value>>)],
                  show.message, "index")
    /\ ShowFrame

InitShow ==
    /\ unique_prime \in TtpPrimes /\ ShareIdle /\ TtpIdle /\ SmcIdle
    /\ group_order \in ShowOrders /\ ShowIdle

NextShow ==
    \/ ShowGenerateKey
    \/ ShowObtainCredential
    \/ ShowTamperCredential
    \/ ShowCreateProof
    \/ ShowVerify
    \/ ShowVerifyAltered
    \/ ShowVerifyOutOfRange

SpecShow == InitShow /\ [][NextShow]_vars

\* the challenge the shown proof hashes to for a message it was created or
\* verified for
ChallengeFor(message) ==
    digests[<<show.pk, show.proof[1], show.proof[2][1], message, show.proof[2][2]>>]

\* the proof of an honest credential, verified as created
HonestShowing ==
    /\ show.at = "verified"
    /\ show.tampered = ""
    /\ show.altered = ""

\* C12: for every honest credential, every choice of hidden attributes and
\* every message m, the proof create_disclosure_proof makes for m is verified
\* as true for m, whatever r, t, z' and z_i are drawn
C12_HonestProofVerifies ==
    (HonestShowing /\ show.vmessage = show.message) => show.verdict = "True"

\* C13: an honest proof with one element (a response s_i or T, alpha, K, s1,
\* s2, or a disclosed attribute) replaced by a different value is verified as
\* false for the same message
C13_AlteredProofRejected ==
    (/\ show.at = "verified"
     /\ show.altered \in {"s", "T", "alpha", "K", "s1", "s2", "disclosed"})
        => show.verdict = "False"

\* the signature of the shown credential does not verify on its attribute map
CredentialInvalid ==
    verify(show.pk, show.credential[1],
           [n \in 1 .. Len(show.credential[2]) |-> show.credential[2][n][2]]) # "True"

C15_NeutralShowingRejected ==
    (show.at = "verified" /\ show.vproof[1][1] = NeutralElement)
        => show.verdict = "False"

\* C16 as stated: an honest proof created for m is rejected for every message
\* m' different from m
C16_OtherMessageRejected ==
    (HonestShowing /\ show.vmessage # show.message) => show.verdict # "True"

\* C16: an honest proof created for m is verified as false for every message
\* m' different from m whose challenge differs from the challenge of m modulo
\* the group order, when K is not the neutral element
C16_OtherChallengeRejected ==
    (/\ HonestShowing
     /\ show.vmessage # show.message
     /\ (ChallengeFor(show.vmessage) - ChallengeFor(show.message)) % GroupOrder # 0
     /\ show.proof[2][1] # NeutralElement)
        => show.verdict = "False"

\* a proof with hidden and disclosed attributes that verifies for its message
\* has been rejected for another message
C16_Witness ==
    /\ HonestShowing
    /\ show.vmessage # show.message
    /\ (ChallengeFor(show.vmessage) - ChallengeFor(show.message)) % GroupOrder # 0
    /\ show.proof[2][1] # NeutralElement
    /\ show.proof[2][3] # <<>>
    /\ show.proof[3] # <<>>
    /\ verify_disclosure_proof(show.pk, show.proof, ChallengeFor(show.message)) = "True"
    /\ show.verdict = "False"

\* C40: in every proof create_disclosure_proof returns, the indices of the
\* hidden responses s and the indices of the disclosed attribute map are
\* disjoint and together are the indices of all the credential's attributes
C40_IndicesPartition ==
    show.at = "proof" =>
        /\ KeySet(show.proof[2][3]) \cap KeySet(show.proof[3]) = {}
        /\ KeySet(show.proof[2][3]) \cup KeySet(show.proof[3]) = KeySet(show.credential[2])

C40_Witness ==
    /\ show.at = "proof"
    /\ show.proof[2][3] # <<>>
    /\ show.proof[3] # <<>>
    /\ KeySet(show.proof[2][3]) \cup KeySet(show.proof[3]) = KeySet(show.credential[2])

-----------------------------------------------------------------------------
(* Specification of the facade: the server generates its keys, a client     *)
(* prepares a registration (or a request is made for any attribute map),    *)
(* the server processes it, the client builds its credential and signs a    *)
(* request that discloses the attributes of the names in types              *)

\* the longest list of subscriptions generate_ca is called with
MaxSubscriptions == 2

\* the names of subscriptions and the reserved names
StrollNames == {"a", "username", "password"}

\* the lists generate_ca is called with
SubscriptionLists ==
    UNION {[1 .. n -> StrollNames] : n \in 0 .. MaxSubscriptions}

\* the lists of subscriptions a client registers with, and its username
ClientSubscriptions == {<<>>, <<"a">>}
Usernames == {"u"}

\* hexlify(G1.order().random().binary()): the ASCII codes of two hex digits
HexValues == {<<48, 49>>}

\* the attribute value and the message of a request made without the client
RequestValues == {<<48, 49>>}
StrollMessages == {<<1>>}

StrollOrders == {2}

StrollFrame == UNCHANGED <<unique_prime, shareVars, ttpVars, smcVars, ps, iss, show,
                           group_order>>

\* the public key and the subscription map of the server's bundle
StrollPk == jsonpickle_decode(stroll.server_pk)[1]
StrollMap == jsonpickle_decode(stroll.server_pk)[2]

\* Server.generate_ca(subscriptions) for a list of `lists`
GenerateCaFrom(lists) ==
    /\ stroll.at = "none"
    /\ \E subscriptions \in lists :
        \E ca \in generate_ca(subscriptions) :
            stroll' = [at |-> "ca", server_sk |-> ca.server_sk, server_pk |-> ca.server_pk,
                       users_issuer_attributes |-> <<>>, username |-> "",
                       user_state |-> <<>>, issuance_request |-> <<>>,
                       user_attributes_indices |-> {},
                       response |-> <<>>, credentials |-> <<>>, types |-> {},
                       signature |-> <<>>, raises |-> "", by |-> "", verdict |-> "",
                       revealed_attributes |-> {}, registrations |-> 1,
                       private_state |-> <<>>]
    /\ UNCHANGED digests
    /\ StrollFrame

StrollGenerateCa == GenerateCaFrom(SubscriptionLists)

\* create_issue_request(pk, user_attributes, user_state), encoded
StrollRequest(user_attributes, username, by) ==
    \E t \in OrderRandom, z_0 \in OrderRandom :
    \E draws \in [1 .. Len(user_attributes) -> OrderRandom] :
        LET z == [n \in 1 .. Len(user_attributes) |-> <<user_attributes[n][1], draws[n]>>]
            commitment == Commitment(StrollPk, user_attributes, t)
            alpha == Alpha(StrollPk, user_attributes, z_0, z)
        IN  \E challenge \in get_challenge(StrollPk, commitment, alpha) :
                /\ stroll' = [stroll EXCEPT
                        !.at = "request", !.username = username, !.by = by,
                        !.user_state = [t |-> t, user_attributes |-> user_attributes],
                        !.issuance_request =
                            jsonpickle_encode(<<commitment,
                                get_pi_proof(user_attributes, t, z_0, z, alpha, challenge)>>)]
                /\ digests' = Hashed(<<StrollPk, commitment, alpha>>, challenge)

\* Client.prepare_registration(server_pk, username, subscriptions)
StrollPrepareRegistration ==
    /\ stroll.at = "ca"
    /\ \E username \in Usernames, subscriptions \in ClientSubscriptions,
          password \in HexValues :
        IF prepare_registration_raises(StrollMap, subscriptions) # ""
        THEN /\ stroll' = [stroll EXCEPT
                    !.at = "raised", !.username = username, !.by = "client",
                    !.raises = prepare_registration_raises(StrollMap, subscriptions)]
             /\ UNCHANGED digests
        ELSE StrollRequest(UserAttributes(StrollMap, username, subscriptions, password),
                           username, "client")
    /\ StrollFrame

\* create_issue_request for the attributes of any set of slots, the request
\* being sent under a username
StrollCreateRequest ==
    /\ stroll.at = "ca"
    /\ \E username \in Usernames,
          indices \in SUBSET (0 .. (Len(StrollPk[2]) - 1)),
          value \in RequestValues :
        LET slots == Sorted(indices)
        IN  StrollRequest([n \in 1 .. Len(slots) |-> <<slots[n], value>>], username,
                          "other")
    /\ StrollFrame

\* Server.process_registration(server_sk, server_pk, issuance_request,
\* username, subscriptions); a request the server has signed is no longer in
\* flight
StrollProcessRegistration ==
    /\ stroll.at = "request"
    /\ LET sk == jsonpickle_decode(stroll.server_sk)
           issue_request == jsonpickle_decode(stroll.issuance_request)
           user_attributes_indices == KeySet(issue_request[2][2][1])
           check == registration_check(StrollMap, user_attributes_indices)
           indices == Sorted(IssuerIndices(StrollMap, user_attributes_indices))
       IN  IF check # ""
           THEN stroll' = [stroll EXCEPT
                    !.at = "rejected", !.raises = check,
                    !.user_attributes_indices = user_attributes_indices]
           ELSE \E values \in [1 .. Len(indices) -> HexValues], u \in OrderRandom :
                \E challenge \in get_challenge(StrollPk, issue_request[1],
                                                issue_request[2][1]) :
                    LET issuer_attributes ==
                            [n \in 1 .. Len(indices) |-> <<indices[n], values[n]>>]
                    IN  IF ~verify_issue_request(issue_request, StrollPk, challenge)
                        THEN stroll' = [stroll EXCEPT
                                !.at = "rejected", !.raises = "ValueError",
                                !.user_attributes_indices = user_attributes_indices]
                        ELSE stroll' = [stroll EXCEPT
                                !.at = "registered",
                                !.user_attributes_indices = user_attributes_indices,
                                !.issuance_request = <<>>,
                                !.users_issuer_attributes =
                                    SetItem(@, stroll.username, issuer_attributes),
                                !.response = jsonpickle_encode(
                                    sign_issue_request(sk, StrollPk, issue_request,
                                                       issuer_attributes, u))]
    /\ UNCHANGED digests
    /\ StrollFrame

\* Client.process_registration_response(server_pk, server_response,
\* private_state), which takes the response
StrollProcessResponse ==
    /\ stroll.at = "registered"
    /\ LET obtained == obtain_credential(StrollPk, jsonpickle_decode(stroll.response),
                                         stroll.user_state)
       IN  IF obtained.raises # ""
           THEN stroll' = [stroll EXCEPT !.at = "raised", !.raises = obtained.raises,
                                         !.response = <<>>]
           ELSE stroll' = [stroll EXCEPT
                    !.at = "credential", !.response = <<>>,
                    !.credentials = jsonpickle_encode(obtained.credential)]
    /\ UNCHANGED digests
    /\ StrollFrame

\* Client.sign_request(server_pk, credentials, message, types); only
\* membership in types is read, so the list is given as the set of its names
StrollSignRequest ==
    /\ stroll.at = "credential"
    /\ \E types \in SUBSET StrollNames, message \in StrollMessages :
        LET credential == jsonpickle_decode(stroll.credentials)
            full_attributes == credential[2]
        IN  IF sign_request_raises(StrollMap, types) # ""
            THEN /\ stroll' = [stroll EXCEPT
                        !.at = "refused", !.types = types,
                        !.raises = sign_request_raises(StrollMap, types)]
                 /\ UNCHANGED digests
            ELSE \E r \in OrderRandom, t \in OrderRandom, z_prime \in OrderRandom :
                 LET hidden_attributes == HiddenIndices(StrollMap, full_attributes, types)
                     randomized_signature == Randomized(credential[1], r, t)
                     hidden == IndexedHidden(full_attributes, hidden_attributes)
                 IN  \E draws \in [1 .. Len(hidden) -> OrderRandom] :
                     LET z == [n \in 1 .. Len(hidden) |-> <<hidden[n][1], draws[n]>>]
                         commit == ShowCommit(StrollPk, hidden, randomized_signature[1], t)
                         alpha == ShowAlpha(StrollPk, hidden, randomized_signature[1],
                                            z_prime, z)
                     IN  \E challenge \in
                             get_disclosure_challenge(StrollPk, randomized_signature,
                                                      commit, message, alpha) :
                             /\ stroll' = [stroll EXCEPT
                                     !.at = "signed", !.types = types,
                                     !.signature = jsonpickle_encode(
                                         <<randomized_signature,
                                           get_disclosure_proof(hidden, t, z_prime, z,
                                               commit, alpha, challenge),
                                           Disclosed(full_attributes, hidden)>>)]
                             /\ digests' = Hashed(<<StrollPk, randomized_signature,
                                                    commit, message, alpha>>, challenge)
    /\ StrollFrame

\* a check_request_signature that compares the disclosed slots with the names
check_request_signature_bound(server_pk, revealed_attributes, signature, challenge) ==
    LET subscriptionMap == jsonpickle_decode(server_pk)[2]
        disclosure_proof == jsonpickle_decode(signature)
    IN  IF KeySet(disclosure_proof[3])
               = SubscriptionIndices(subscriptionMap, revealed_attributes \cap KeySet(subscriptionMap))
        THEN verify_disclosure_proof(jsonpickle_decode(server_pk)[1], disclosure_proof, challenge)
        ELSE "False"

\* Server.check_request_signature(server_pk, message, revealed_attributes,
\* signature): the verdict of verify_disclosure_proof on the decoded key and
\* proof; the message is hashed into the challenge, revealed_attributes is
\* not read
check_request_signature(server_pk, revealed_attributes, signature, challenge) ==
    verify_disclosure_proof(jsonpickle_decode(server_pk)[1], jsonpickle_decode(signature), challenge)

\* the lists of names a caller passes as revealed_attributes
RevealedLists == {{}, {"a"}, StrollNames}

\* the call of check_request_signature on the signed request and its message
StrollCheckRequestSignature ==
    /\ stroll.at = "signed"
    /\ \E message \in StrollMessages, revealed_attributes \in RevealedLists :
        LET disclosure_proof == jsonpickle_decode(stroll.signature)
        IN  \E challenge \in
                get_disclosure_challenge(StrollPk, disclosure_proof[1],
                    disclosure_proof[2][1], message, disclosure_proof[2][2]) :
                /\ stroll' = [stroll EXCEPT
                        !.at = "checked",
                        !.revealed_attributes = revealed_attributes,
                        !.verdict = check_request_signature(stroll.server_pk,
                            revealed_attributes, stroll.signature, challenge)]
                /\ digests' = Hashed(<<StrollPk, disclosure_proof[1],
                                       disclosure_proof[2][1], message,
                                       disclosure_proof[2][2]>>, challenge)
    /\ StrollFrame

InitStroll ==
    /\ unique_prime \in TtpPrimes /\ ShareIdle /\ TtpIdle /\ SmcIdle
    /\ group_order \in StrollOrders /\ ShowIdle

NextStroll ==
    \/ StrollGenerateCa
    \/ StrollPrepareRegistration
    \/ StrollCreateRequest
    \/ StrollProcessRegistration
    \/ StrollProcessResponse
    \/ StrollSignRequest
    \/ StrollCheckRequestSignature

SpecStroll == InitStroll /\ [][NextStroll]_vars

\* C17: the proof sign_request produces discloses only the attributes of the
\* names in types: the password slot and every other slot that is not named
\* is absent from the proof's disclosed attribute map
C17_OnlyNamedDisclosed ==
    stroll.at = "signed" =>
        KeySet(jsonpickle_decode(stroll.signature)[3])
            \subseteq SubscriptionIndices(StrollMap, stroll.types)

\* C18: whenever types contains "password", sign_request raises and produces
\* no signature, for every credential and message
C18_PasswordRefused ==
    (stroll.at \in {"signed", "refused"} /\ "password" \in stroll.types) =>
        /\ stroll.at = "refused"
        /\ stroll.raises = "ValueError"
        /\ stroll.signature = <<>>

\* a request to disclose the password along with a subscription of the
\* credential has been refused
C18_Witness ==
    /\ stroll.at = "refused"
    /\ stroll.types = {"a", "password"}
    /\ "a" \in KeySet(StrollMap)
    /\ stroll.raises = "ValueError"
    /\ stroll.signature = <<>>

\* C19: for every list of subscriptions, the subscription map generate_ca
\* returns contains "username" and "password", and the key has one slot for
\* every entry of the map
C19_ReservedSlots ==
    stroll.at # "none" =>
        /\ {"username", "password"} \subseteq KeySet(StrollMap)
        /\ Len(StrollPk[2]) = Len(StrollMap)

\* the user's indices of the request processed lack the slot of a name
LacksSlot(name) ==
    \/ name \notin KeySet(StrollMap)
    \/ Get(StrollMap, name) \notin stroll.user_attributes_indices

\* C20: process_registration raises and returns no blind signature for every
\* request whose user indices lack the password slot or the username slot
C20_IncompleteRequestRejected ==
    (/\ stroll.at \in {"registered", "rejected"}
     /\ LacksSlot("password") \/ LacksSlot("username"))
        => /\ stroll.at = "rejected"
           /\ stroll.raises \in {"ValueError", "KeyError"}
           /\ stroll.response = <<>>
           /\ stroll.users_issuer_attributes = <<>>

\* a request with the password slot and without the username slot of the map
\* has been rejected
C20_Witness ==
    /\ stroll.at = "rejected"
    /\ "username" \in KeySet(StrollMap)
    /\ ~LacksSlot("password")
    /\ LacksSlot("username")
    /\ stroll.raises = "ValueError"
    /\ stroll.response = <<>>

\* C21: for a CA generated over any subscription list, the sequence
\* generate_ca, prepare_registration, process_registration,
\* process_registration_response, sign_request disclosing names of the map
\* other than the password, check_request_signature runs to its end without
\* an error and the final check returns True
C21_FacadeCompletes ==
    (stroll.at # "none" /\ stroll.by = "client") =>
        /\ stroll.at \notin {"raised", "rejected"}
        /\ stroll.at = "refused" => stroll.raises # "" /\
               ~(stroll.types \subseteq KeySet(StrollMap) \ {"password"})
        /\ stroll.at = "checked" => stroll.verdict = "True"

\* C35: check_request_signature gives the same verdict for every value of
\* revealed_attributes, so a valid proof is accepted also when the slots it
\* discloses are not the slots of the names passed
C35_NamesNotBound ==
    [][(stroll.at = "signed" /\ stroll'.at = "checked") =>
        LET disclosure_proof == jsonpickle_decode(stroll.signature)
        IN  \A message \in StrollMessages :
            \A challenge \in get_disclosure_challenge(StrollPk, disclosure_proof[1],
                    disclosure_proof[2][1], message, disclosure_proof[2][2]) :
                digests' = Hashed(<<StrollPk, disclosure_proof[1], disclosure_proof[2][1],
                                    message, disclosure_proof[2][2]>>, challenge)
                => \A revealed_attributes \in RevealedLists :
                    stroll'.verdict = check_request_signature(stroll.server_pk,
                        revealed_attributes, stroll.signature, challenge)]_vars

C35_Witness ==
    /\ stroll.at = "checked"
    /\ stroll.verdict = "True"
    /\ KeySet(jsonpickle_decode(stroll.signature)[3])
           # SubscriptionIndices(StrollMap, stroll.revealed_attributes \cap KeySet(StrollMap))

\* the indices of the issuer attributes recorded for the registered user
IssuerRecorded == KeySet(Get(stroll.users_issuer_attributes, stroll.username))

\* C31: for every request process_registration accepts, the issuer-chosen
\* indices are the map's indices the user did not request: the user and
\* issuer index sets are disjoint and their union is {0 .. L-1}
C31_IndexSetsPartition ==
    stroll.at = "registered" =>
        /\ IssuerRecorded =
                { Get(StrollMap, name) : name \in KeySet(StrollMap) }
                    \ stroll.user_attributes_indices
        /\ IssuerRecorded \cap stroll.user_attributes_indices = {}
        /\ IssuerRecorded \cup stroll.user_attributes_indices
                = 0 .. (Len(StrollPk[2]) - 1)

-----------------------------------------------------------------------------
(* Specification of the server over several registrations: requests are     *)
(* created by a client or by anyone, sent as created or with the response   *)
(* T replaced, and processed one after the other by the same Server         *)

\* the number of process_registration calls a Server object takes
MaxRegistrations == 2

\* the request in flight, with the response scalar T replaced
StrollAlterRequest ==
    /\ stroll.at = "request"
    /\ stroll.by # "forger"
    /\ LET issue_request == jsonpickle_decode(stroll.issuance_request)
       IN  stroll' = [stroll EXCEPT
                !.by = "forger",
                !.issuance_request =
                    jsonpickle_encode([issue_request EXCEPT ![2][2][2] = @ + 1])]
    /\ UNCHANGED digests
    /\ StrollFrame

\* process_registration has returned or raised: the Server object, with its
\* users_issuer_attributes, takes the next request
StrollNextRegistration ==
    /\ stroll.at \in {"registered", "rejected"}
    /\ stroll.registrations < MaxRegistrations
    /\ stroll' = [stroll EXCEPT
            !.at = "ca", !.username = "", !.user_state = <<>>,
            !.registrations = @ + 1,
            !.issuance_request = <<>>, !.user_attributes_indices = {},
            !.response = <<>>, !.raises = "", !.by = ""]
    /\ UNCHANGED digests
    /\ StrollFrame

\* the lists the server of several registrations is set up with
ServerLists == {<<"a", "username">>}

ServerGenerateCa == GenerateCaFrom(ServerLists)

NextServer ==
    \/ ServerGenerateCa
    \/ StrollPrepareRegistration
    \/ StrollCreateRequest
    \/ StrollAlterRequest
    \/ StrollProcessRegistration
    \/ StrollNextRegistration

SpecServer == InitStroll /\ [][NextServer]_vars

\* process_registration is being called on the request in flight
Processing == stroll.at = "request" /\ stroll'.at \in {"registered", "rejected"}

\* the user's indices of the request in flight
RequestIndices == KeySet(jsonpickle_decode(stroll.issuance_request)[2][2][1])

\* the proof of knowledge of the request in flight fails: alpha * C ** c is
\* not g ** T * prod(Y_i ** s_i) for the challenge c of the request
FailsProof ==
    LET issue_request == jsonpickle_decode(stroll.issuance_request)
        s == issue_request[2][2][1]
    IN  \A challenge \in get_challenge(StrollPk, issue_request[1], issue_request[2][1]) :
            GroupMul(issue_request[2][1], GroupPow(issue_request[1], challenge))
                # point_product_dict(Subset(StrollPk[2], s), s,
                                     GroupPow(StrollPk[1], issue_request[2][2][2]))

\* the request in flight lacks the slot of a name
RequestLacks(name) ==
    \/ name \notin KeySet(StrollMap)
    \/ Get(StrollMap, name) \notin RequestIndices

\* C33: sign_issue_request emits no blind signature for a request whose proof
\* of knowledge fails verify_issue_request: process_registration raises and
\* returns no response
C33_FailedProofNotSigned ==
    [][(Processing /\ FailsProof) =>
            /\ stroll'.at = "rejected"
            /\ stroll'.raises \in {"ValueError", "KeyError"}
            /\ stroll'.response = <<>>]_vars

\* a request with both mandatory slots and a replaced T has been rejected
C33_Witness ==
    /\ stroll.at = "rejected"
    /\ stroll.by = "forger"
    /\ ~LacksSlot("password") /\ ~LacksSlot("username")
    /\ stroll.raises = "ValueError"
    /\ stroll.response = <<>>

\* C34: the server's username -> issuer_attrs map is write-once per user: no
\* process_registration call changes an entry already recorded
C34_WriteOnce ==
    [][stroll.at = "request" =>
        \A username \in KeySet(stroll.users_issuer_attributes) :
            /\ username \in KeySet(stroll'.users_issuer_attributes)
            /\ Get(stroll'.users_issuer_attributes, username)
                = Get(stroll.users_issuer_attributes, username)]_vars

\* C39: a process_registration call that fails (missing password slot,
\* missing username slot, or invalid proof of knowledge) leaves
\* users_issuer_attributes unchanged
C39_FailureRecordsNothing ==
    [][(Processing /\ (RequestLacks("password") \/ RequestLacks("username") \/ FailsProof))
            => stroll'.users_issuer_attributes = stroll.users_issuer_attributes]_vars

\* after a registration that recorded issuer attributes, a request without
\* the username slot has been rejected and the record is still there
C39_Witness ==
    /\ stroll.at = "rejected"
    /\ "username" \in KeySet(StrollMap)
    /\ LacksSlot("username")
    /\ stroll.users_issuer_attributes # <<>>
    /\ Get(stroll.users_issuer_attributes, "u") # <<>>

-----------------------------------------------------------------------------
(* Specification of one Client preparing two registrations: the Client holds *)
(* one UserState object, which create_issue_request fills in place and       *)
(* prepare_registration returns, so stroll.user_state is that object and     *)
(* stroll.private_state what it held when the first call returned it         *)

\* a second Client.prepare_registration(server_pk, username, subscriptions) of
\* the same Client while its first request is in flight
StrollPrepareAgain ==
    /\ stroll.at = "request" /\ stroll.by = "client"
    /\ \E username \in Usernames, subscriptions \in ClientSubscriptions :
        IF prepare_registration_raises(StrollMap, subscriptions) # ""
        THEN /\ stroll' = [stroll EXCEPT !.by = "client again",
                                         !.private_state = stroll.user_state]
             /\ UNCHANGED digests
        ELSE LET password == Get(stroll.user_state.user_attributes,
                                 Get(StrollMap, "password"))
                 user_attributes == UserAttributes(StrollMap, username, subscriptions,
                                                   password)
             IN  \E t \in OrderRandom, z_0 \in OrderRandom :
                 \E draws \in [1 .. Len(user_attributes) -> OrderRandom] :
                     LET z == [n \in 1 .. Len(user_attributes) |->
                                  <<user_attributes[n][1], draws[n]>>]
                         commitment == Commitment(StrollPk, user_attributes, t)
                         alpha == Alpha(StrollPk, user_attributes, z_0, z)
                     IN  \E challenge \in get_challenge(StrollPk, commitment, alpha) :
                             /\ stroll' = [stroll EXCEPT
                                     !.by = "client again",
                                     !.private_state = stroll.user_state,
                                     !.user_state = [t |-> t,
                                         user_attributes |-> user_attributes]]
                             /\ digests' = Hashed(<<StrollPk, commitment, alpha>>,
                                                  challenge)
    /\ StrollFrame

NextReuse ==
    \/ ServerGenerateCa
    \/ StrollPrepareRegistration
    \/ StrollPrepareAgain
    \/ StrollProcessRegistration
    \/ StrollProcessResponse

SpecReuse == InitStroll /\ [][NextReuse]_vars

\* C38: the private state prepare_registration returned stays bound to its
\* request: after a second prepare_registration of the same Client,
\* process_registration_response with the first response and the first
\* returned state yields a credential whenever what that state held when it
\* was returned unblinds the response to a valid signature
C38_StateBoundToRequest ==
    [][(stroll.at = "registered" /\ stroll.by = "client again"
            /\ stroll'.at \in {"credential", "raised"}
            /\ obtain_credential(StrollPk, jsonpickle_decode(stroll.response),
                                 stroll.private_state).raises = "")
        => stroll'.at = "credential"]_vars

====
